---------------------------- MODULE Spec2Model ----------------------------
(***************************************************************************)
(* State-machine model of the processor-tree runtime: the Catenation       *)
(* multiplexer and the Channel base of flows.py, the KOutput kernel        *)
(* channel, and the Processor/Sector/Unit tree of library.py.              *)
(*                                                                         *)
(* Each subsystem has its own specification over its own group of          *)
(* variables (SpecCat; SpecChan and SpecObs; SpecSec and SpecTree;         *)
(* SpecKO); the variables of the other groups keep their initial values    *)
(* under it.  Subprocess (SpecSp), ProcessManager (SpecPm), the Unit's     *)
(* index and exit (SpecUnit), terminate() of one processor (SpecTc), Ports *)
(* (SpecPorts), the layers of a Transports pair (SpecTp), the Catenation's *)
(* own termination (SpecCatTerm), the Division with its consumers'         *)
(* obstructions (SpecDivObs), KInput (SpecKi) and Recurrence (SpecRc) are  *)
(* modelled in the same way.                                               *)
(***************************************************************************)
EXTENDS Integers, Sequences, FiniteSets, TLC

\* Python's None, for references to flows, layers and processors (ids >= 1).
None == 0

(***************************************************************************)
(* Bounds of the model.                                                    *)
(***************************************************************************)
\* Layers reserved on the Catenation; layer i is the i-th reservation and
\* its upstream flow is flow i.
MaxLayers == 3
\* Payloads one upstream flow may send.
MaxSend == 2
\* Payloads the upstream of the second layer sends at most.
MaxQueued == 9
\* Layers a Division is sent, and payloads sent for one layer.
MaxDivLayers == 2
MaxDivSend == 3
\* Items of the iterator of an Iteration, and f_obstruct calls made on it.
MaxItems == 3
MaxItObs == 3
\* Layers of the stack of a Transports pair.
MaxTfLayers == 2
\* f_emit calls of one side of the pair.
MaxTfEmit == 3
\* Tasks deferred on a Scheduler, the longest delay, and the last time unit.
MaxTasks == 3
MaxMeasure == 3
MaxTime == 5

MaxDelay == 3
MaxOccur == 6

NKiKeys == 3
MaxBuffers == 6

\* Layers of the stack a Transports pair is created with.
MaxStack == 3

\* Ports: the endpoints a slot may hold and the descriptors allocated.
NEndpoints == 3
MaxFds == 4

\* Children a Sector is constructed with.
MaxChildren == 3

\* Unit: the path components, the depth of an address and the number of
\* place calls.
MaxDepth == 3
MaxPlace == 2

\* ctl_concurrency of the ProcessManager, and the number of children it may fork.
Concurrency == 2
MaxForks == 5

\* Process identifiers in the set of a Subprocess; NPids + 1 is a pid outside it.
NPids == 2
\* Channels of the channel network.
NChan == 3
\* External monitors (f_watch callers that are no channel) and external
\* obstruction keys.
NWatch == 2
NKeys == 2
\* Processors of the processor tree: two sectors, one System interface and
\* the rest Calls.
NProc == 4
\* Processors an atexit callback is registered for.
MaxAtexit == 1
\* Entries sent to the KOutput in all, and in one process call.
MaxEntries == 19
MaxBatch == 2

VARIABLES
    \* ---- Catenation (flows.py) ----
    cat_order,        \* deque of reserved layers, head is head-of-line
    cat_connections,  \* flow -> [q, hasq, layer, term]
    cat_flows,        \* layer -> flow or None
    cat_events,       \* event aggregator
    cat_tasks,        \* the context's FIFO task queue (tasks of the Catenation)
    cat_reserved,     \* number of layers reserved so far
    cat_f_emit,       \* "downstream" or "discarding"
    cat_terminating,  \* Processor.terminating of the Catenation
    cat_terminated,   \* Processor.terminated of the Catenation
    cat_fault,        \* an exception of a Catenation task was reported by fault()
    emitted,          \* concatenation of the batches received by the downstream
    up_state,         \* upstream flow -> "idle" | "connected" | "terminated"
    up_sent,          \* upstream flow -> number of payloads sent
    up_obstructed,    \* upstream flow -> obstructed by the Catenation
    \* ---- Channel base (flows.py) ----
    f_downstream,     \* channel -> channel or None
    f_upstream,       \* channel -> channel or None (the weak reference's target)
    f_emit,           \* channel -> [to, meth]: the bound method f_emit refers to
    ch_process,       \* channel -> "process" | "f_discarding": what .process is
    f_obstructions,   \* channel -> [isnil, d]: None, or the mapping key -> condition
    f_monitors,       \* channel -> set of sentries (upstream channels and watchers)
    mon_calls,        \* channel -> sentry -> <<onObstruct, onClear>> calls of the last operation
    chan_last,        \* [op, c]: the last call made on a channel from outside
    chan_pair,        \* channel -> target of its last f_connect, None after f_disconnect
    \* ---- Channel termination (flows.py) and each channel's sector (library.py) ----
    ch_terminating,   \* channel -> Processor.terminating
    ch_terminated,    \* channel -> Processor.terminated
    ch_sector,        \* channel -> its controlling sector: "functioning" | "interrupted" | "terminated"
    ch_exits,         \* channel -> the channel is in its sector's exits set
    ch_tasks,         \* the context's FIFO task queue: <<"_f_terminated" | "reap", channel>>
    term_log,         \* <<"terminated" | "exited", channel>> events of the last operation, in order
    \* ---- Division (flows.py) ----
    div_flows,        \* layer -> "unset" (no key) | "none" | "terminate" | "flow"
    div_queues,       \* layer -> [has, q]: whether div_queues has the key, and the deque
    div_count,        \* number of layers initiated so far
    div_arrived,      \* layer -> payloads that arrived with transfer events, in order
    div_delivered,    \* layer -> payloads the consumer flow's process received, in order
    div_drained,      \* layer -> number of payloads div_connect drained from the queue
    div_fterm,        \* layer -> number of f_terminate calls the consumer flow received
    div_calls,        \* layer -> calls made on the consumer flow: a payload, or 0 for f_terminate
    div_watched,      \* layer -> the consumer flow's f_monitors holds the Division's pair
    div_fobs,         \* layer -> the consumer flow is obstructed
    div_obstructions, \* consumer flows that are keys of the Division's f_obstructions
    div_terminated,   \* the Division ran _f_terminated
    \* ---- Iteration (flows.py) ----
    it_actuated,      \* Processor.actuated
    it_pos,           \* number of items taken from it_iterator
    it_emitted,       \* items the downstream's process received, in order
    it_obs,           \* keys of f_obstructions ({} is None)
    it_nobs,          \* number of f_obstruct calls made so far
    it_tasks,         \* the context's FIFO task queue: "it_transition" | "_f_terminated"
    it_terminating,   \* Processor.terminating
    it_terminated,    \* Processor.terminated
    \* ---- Transports pair (flows.py) ----
    tf_pending,       \* layer -> the sides (1 input, -1 output) the layer holds transfers for
    tf_terminating,   \* side -> Processor.terminating of that side
    tf_raised,        \* the last process pass raised "transport stack deadlock"
    tf_last,          \* [side, x]: the side of the last pass and the x it computed
    tf_emitted,       \* side -> number of f_emit calls of that side
    \* ---- Scheduler (library.py) ----
    sch_now,          \* the current time
    sch_schedule,     \* state.schedule: the set of pending <<deadline, task>>
    sch_registered,   \* the time the context runs the registered transition at, or None
    sch_reference,    \* scheduled_reference is set on the instance
    sch_executed,     \* the <<deadline, task>> executed so far, in order
    sch_count,        \* number of tasks deferred so far
    sch_fault,        \* transition reported an exception with fault()
    \* ---- Processor / Sector / Unit (library.py) ----
    p_actuated,       \* processor -> Processor.actuated
    p_terminated,     \* processor -> Processor.terminated
    p_terminating,    \* processor -> Processor.terminating is true (None and False are FALSE)
    p_interrupted,    \* processor -> Processor.interrupted
    p_controller,     \* processor -> its controller: a sector, Unit or None
    p_exceptions,     \* processor -> Processor.exceptions is a non-empty set
    s_processors,     \* sector -> the mapping key -> set of processors
    s_exits,          \* sector -> Sector.exits ({} is None)
    s_scheduler,      \* sector -> its scheduler: "none" | "functioning" | "interrupted"
    s_eec,            \* sector -> processors with a callback in exit_event_connections
    ctx_tasks,        \* the context's FIFO task queue
    u_faults,         \* resources placed under the unit's faults directory
    u_exits,          \* processors Unit.exited was called with
    atexit_ran,       \* processor -> "unset" | "set" | how it had exited when its callback ran
    \* ---- Subprocess (dispatch.py, library.py) ----
    sp_class,         \* which class the instance is: "dispatch" | "library"
    sp_kernel,        \* pid -> "running" | "gone" (exited unobserved) | "event" (exit event pending) | "done"
    sp_subscribed,    \* the exit events of the pids are connected
    sp_actuated,      \* actuate returned
    sp_status,        \* keys of sp_exit_status (dispatch), of process_exit_events (library)
    sp_active,        \* library: active_processes
    sp_has_active,    \* library: the attribute active_processes exists (it is deleted on the last exit)
    sp_interrupted,   \* Processor.interrupted
    sp_terminating,   \* Processor.terminating
    sp_terminated,    \* Processor.terminated
    sp_exits,         \* number of completions signalled to the controller
    sp_raised,        \* exception raised by the last operation, or "none"
    sp_last,          \* the last operation and the pid it was called with
    \* ---- ProcessManager (daemon.py) ----
    pm_actuated,      \* actuate has run
    pm_terminating,   \* Processor.terminating of the manager
    pm_terminated,    \* finish_termination has run
    pm_procs,         \* the children forked so far: pm_procs[pid] is the fork id (SECTORS) of pid
    pm_subprocess,    \* ctl_fork_id_to_subprocess: fork id -> pid of its Subprocess, or None
    pm_last_exit,     \* ctl_last_exit_status: fork id -> pid of the recorded exit, or None
    pm_xacts,         \* pids whose Subprocess transaction is dispatched in the manager
    pm_exited,        \* pids whose child has exited and whose xact_exit is pending
    pm_signalled,     \* pids that terminate() has signalled
    \* ---- Unit: index, hierarchy and exit (library.py) ----
    un_index,         \* u_index: address -> object
    un_reverse,       \* u_reverse_index: object -> address
    un_hierarchy,     \* u_hierarchy: the paths of the nested dictionaries
    un_exit,          \* u_exit: the registered at-exit callbacks
    un_ran,           \* the callbacks the last call of exited has run
    un_tasks,         \* number of terminate tasks enqueued and not yet run
    un_terminated,    \* Unit.terminated
    un_process_exits, \* the result codes process.terminate was called with, in order
    un_nplace,        \* number of place calls made
    un_raised,        \* exception raised by the last operation, or "none"
    \* ---- terminate() of one Processor, Sector or Channel ----
    tc_class,         \* "none" before construction | "Processor" | "Sector" | "Channel"
    tc_actuated,      \* Processor.actuated
    tc_terminating,   \* Processor.terminating
    tc_terminated,    \* Processor.terminated
    tc_interrupted,   \* Processor.interrupted
    tc_processors,    \* Sector: children held in self.processors
    tc_signalled,     \* Sector: children whose terminate() was called
    tc_tasks,         \* Channel: _f_terminated tasks enqueued and not yet run
    tc_discarding,    \* Channel: process and f_emit are f_discarding
    tc_exits,         \* exits signalled to the controller
    tc_return,        \* what the last terminate() returned, "none" before any
    \* ---- Ports (library.py) ----
    pt_sets,          \* sets[slot]: endpoint -> descriptor, None for an endpoint that is not held
    pt_open,          \* the descriptors that are open
    pt_nfd,           \* number of descriptors allocated so far
    pt_raised,        \* exception raised by the last operation, or "none"
    \* ---- Transports pair: termination of the layers (flows.py) ----
    tp_created,       \* Transports.create has run
    tp_stack,         \* tf_stack, shared by the two sides: the layers, bottom first
    tp_ops,           \* side -> tf_operations, each operation named by its layer
    tp_layer,         \* layer -> the directions the layer has terminated
    tp_down,          \* side -> f_downstream is connected
    tp_dsterm,        \* side -> f_terminate calls made on the side's downstream
    tp_terminating,   \* side -> Processor.terminating
    tp_terminated,    \* side -> Processor.terminated
    tp_called,        \* the sides whose f_terminate was called
    tp_raised,        \* exception raised by the last operation, or "none"
    \* ---- KInput (flows.py) ----
    ki_resource,      \* the transit's resource: "none" | "buffer" (a buffer the kernel fills)
    ki_obstructions,  \* keys of the KInput's f_obstructions
    ki_acquired,      \* number of buffers handed to the kernel with acquire
    ki_injected,      \* number of filled buffers emitted downstream
    ki_stalled,       \* the last k_transition returned without a buffer
    \* ---- Recurrence and its sector (library.py) ----
    rc_actuated,      \* Recurrence.actuated
    rc_terminating,   \* Recurrence.terminating
    rc_terminated,    \* Recurrence.terminated
    rc_wait,          \* pending occur call: -1 none, 0 ready to run, d > 0 deferred by d
    rc_count,         \* number of target() calls
    rc_exits,         \* the Recurrence is in its sector's exits set
    rc_sector,        \* the sector: [processors, terminating, terminated]
    \* ---- KOutput (flows.py) ----
    ko_queue,         \* deque of entries waiting for the kernel
    ko_resource,      \* transit.resource: the entry in flight, or None
    k_transferred,    \* 0, or -1 for None
    ko_obstructed,    \* f_obstructions holds the key self
    ko_terminating,   \* Processor.terminating
    ko_process,       \* what .process is bound to: "process" | "f_discarding"
    ko_transit,       \* "open" | "terminated" (transit.terminate() called) | "none" (k_kill)
    ko_exits,         \* number of exits signalled to the controller
    ko_acquired,      \* the entries handed to the kernel, in order
    ko_enqueued       \* number of entries sent to process

catVars == <<cat_order, cat_connections, cat_flows, cat_events, cat_tasks,
             cat_reserved, cat_f_emit, cat_terminating, cat_terminated,
             cat_fault, emitted, up_state, up_sent, up_obstructed>>

chanVars == <<f_downstream, f_upstream, f_emit, ch_process,
              f_obstructions, f_monitors, mon_calls, chan_last, chan_pair>>

termVars == <<ch_terminating, ch_terminated, ch_sector, ch_exits, ch_tasks, term_log>>

divVars == <<div_flows, div_queues, div_count, div_arrived, div_delivered,
             div_drained, div_fterm, div_calls, div_watched, div_fobs,
             div_obstructions, div_terminated>>

itVars == <<it_actuated, it_pos, it_emitted, it_obs, it_nobs, it_tasks,
            it_terminating, it_terminated>>

tfVars == <<tf_pending, tf_terminating, tf_raised, tf_last, tf_emitted>>

schVars == <<sch_now, sch_schedule, sch_registered, sch_reference, sch_executed,
             sch_count, sch_fault>>

spVars == <<sp_class, sp_kernel, sp_subscribed, sp_actuated, sp_status, sp_active,
            sp_has_active, sp_interrupted, sp_terminating, sp_terminated, sp_exits,
            sp_raised, sp_last>>

pmVars == <<pm_actuated, pm_terminating, pm_terminated, pm_procs, pm_subprocess,
            pm_last_exit, pm_xacts, pm_exited, pm_signalled>>

unVars == <<un_index, un_reverse, un_hierarchy, un_exit, un_ran, un_tasks,
            un_terminated, un_process_exits, un_nplace, un_raised>>

tcVars == <<tc_class, tc_actuated, tc_terminating, tc_terminated, tc_interrupted,
            tc_processors, tc_signalled, tc_tasks, tc_discarding, tc_exits, tc_return>>

ptVars == <<pt_sets, pt_open, pt_nfd, pt_raised>>

tpVars == <<tp_created, tp_stack, tp_ops, tp_layer, tp_down, tp_dsterm,
            tp_terminating, tp_terminated, tp_called, tp_raised>>

kiVars == <<ki_resource, ki_obstructions, ki_acquired, ki_injected, ki_stalled>>

rcVars == <<rc_actuated, rc_terminating, rc_terminated, rc_wait, rc_count,
            rc_exits, rc_sector>>

secVars == <<p_actuated, p_terminated, p_terminating, p_interrupted,
             p_controller, p_exceptions, s_processors, s_exits, s_eec, s_scheduler,
             ctx_tasks, u_faults, u_exits, atexit_ran>>

koVars == <<ko_queue, ko_resource, k_transferred, ko_obstructed, ko_terminating,
            ko_process, ko_transit, ko_exits, ko_acquired, ko_enqueued>>

vars == <<catVars, chanVars, termVars, divVars, itVars, tfVars, schVars, spVars, pmVars, unVars, tcVars, ptVars, tpVars, kiVars, rcVars, secVars, koVars>>

\* The variables every action of one subsystem leaves alone.
notCat == <<chanVars, termVars, divVars, itVars, tfVars, schVars, spVars, pmVars, unVars, tcVars, ptVars, tpVars, kiVars, rcVars, secVars, koVars>>
notChan == <<catVars, termVars, divVars, itVars, tfVars, schVars, spVars, pmVars, unVars, tcVars, ptVars, tpVars, kiVars, rcVars, secVars, koVars>>
notSec == <<catVars, chanVars, termVars, divVars, itVars, tfVars, schVars, spVars, pmVars, unVars, tcVars, ptVars, tpVars, kiVars, rcVars, koVars>>
notKO == <<catVars, chanVars, termVars, divVars, itVars, tfVars, schVars, spVars, pmVars, unVars, tcVars, ptVars, tpVars, kiVars, rcVars, secVars>>

(***************************************************************************)
(* Catenation                                                              *)
(***************************************************************************)
\* Layer i is the i-th reservation; its upstream flow has the same number.
Layers == 1..MaxLayers

\* Events are the tuples the code builds: <<"initiate", layer>>,
\* <<"transfer", layer, payload>> and <<"terminate", layer>>.

\* len(q) > 8 in cat_overflowing.
CatQueueLimit == 8

\* A mapping without the key k (dict.pop / del).
Without(m, k) == [x \in (DOMAIN m) \ {k} |-> m[x]]
\* A mapping with m[k] = v (dict.__setitem__).
With(m, k, v) == [x \in (DOMAIN m) \cup {k} |-> IF x = k THEN v ELSE m[x]]

\* The Catenation's own state as one value, threaded through the methods
\* that call each other (cat_connect, cat_terminate and cat_drain all call
\* cat_transition).
CatState == [order |-> cat_order, connections |-> cat_connections,
             flows |-> cat_flows, events |-> cat_events, tasks |-> cat_tasks,
             obstructed |-> up_obstructed]

\* "if not self.cat_events: self.ctx_enqueue_task(self.cat_flush)" followed
\* by "self.cat_events.append(ev)".
cat_append(c, ev) ==
    [c EXCEPT !.tasks = IF c.events = <<>> THEN Append(@, "cat_flush") ELSE @,
              !.events = Append(@, ev)]

\* Catenation.cat_overflowing
cat_overflowing(c, flow) ==
    LET cxn == c.connections[flow]
    IN  IF ~cxn.hasq THEN FALSE ELSE Len(cxn.q) > CatQueueLimit

\* Catenation.cat_transition: pop the head of line, emit its terminate and
\* enqueue cat_drain when the next layer is already connected.
cat_transition(c) ==
    LET l  == Head(c.order)
        f  == c.flows[l]
        c1 == [c EXCEPT !.order = Tail(@),
                        !.flows = Without(@, l),
                        !.connections = IF f # None THEN Without(@, f) ELSE @]
        c2 == cat_append(c1, <<"terminate", l>>)
    IN  IF c2.order # <<>> /\ Head(c2.order) \in DOMAIN c2.flows
        THEN [c2 EXCEPT !.tasks = Append(@, "cat_drain")]
        ELSE c2

\* Catenation.cat_transfer for a source present in cat_connections.  The
\* third branch ("flow has not been connected") raises in the sender.
cat_transfer(c, events, source) ==
    LET cxn == c.connections[source]
    IN  IF cxn.layer = Head(c.order)
        THEN cat_append(c, <<"transfer", cxn.layer, events>>)
        ELSE IF cxn.hasq
        THEN LET c1 == [c EXCEPT !.connections[source].q = Append(@, events)]
             IN  IF ~c1.obstructed[source] /\ cat_overflowing(c1, source)
                 THEN [c1 EXCEPT !.obstructed[source] = TRUE]
                 ELSE c1
        ELSE c

\* Catenation.cat_terminate
cat_terminate(c, subflow) ==
    LET cxn == c.connections[subflow]
    IN  IF cxn.layer = Head(c.order)
        THEN cat_transition(c)
        ELSE [c EXCEPT !.connections[subflow].term = TRUE]

\* Assign the threaded state back to the variables.
CatStore(c) ==
    /\ cat_order' = c.order
    /\ cat_connections' = c.connections
    /\ cat_flows' = c.flows
    /\ cat_events' = c.events
    /\ cat_tasks' = c.tasks
    /\ up_obstructed' = c.obstructed

\* Catenation.cat_reserve(layer)
CatReserve ==
    /\ ~cat_fault
    /\ cat_reserved < MaxLayers
    /\ cat_reserved' = cat_reserved + 1
    /\ cat_order' = Append(cat_order, cat_reserved + 1)
    /\ UNCHANGED <<cat_connections, cat_flows, cat_events, cat_tasks, cat_f_emit,
                   cat_terminating, cat_terminated, cat_fault, emitted,
                   up_state, up_sent, up_obstructed>>
    /\ UNCHANGED notCat

\* Catenation.cat_connect(layer, flow): flow is the layer's upstream, or
\* None for a layer that has no content.  flow.f_connect(self) makes the
\* upstream emit into Catenation.process.
CatConnect(layer, flow) ==
    /\ ~cat_fault
    /\ \E i \in 1..Len(cat_order) : cat_order[i] = layer
    /\ layer \notin DOMAIN cat_flows
    /\ flow # None => up_state[flow] = "idle"
    /\ LET c == CatState
           hol == cat_order[1] = layer
           c1 == IF hol
                 THEN [c EXCEPT
                         !.connections = IF flow # None
                             THEN With(@, flow, [q |-> <<>>, hasq |-> FALSE,
                                                 layer |-> layer, term |-> FALSE])
                             ELSE @,
                         !.flows = With(@, layer, flow)]
                 ELSE [c EXCEPT
                         !.flows = With(@, layer, flow),
                         !.connections = IF flow # None
                             THEN With(@, flow, [q |-> <<>>, hasq |-> TRUE,
                                                 layer |-> layer, term |-> FALSE])
                             ELSE @]
           c2 == IF hol THEN cat_append(c1, <<"initiate", layer>>) ELSE c1
           c3 == IF hol /\ flow = None THEN cat_transition(c2) ELSE c2
       IN  CatStore(c3)
    /\ up_state' = IF flow # None THEN [up_state EXCEPT ![flow] = "connected"]
                   ELSE up_state
    /\ UNCHANGED <<cat_reserved, cat_f_emit, cat_terminating, cat_terminated,
                   cat_fault, emitted, up_sent>>
    /\ UNCHANGED notCat

\* An upstream flow emits its next payload: Catenation.process(events, source)
\* with source in cat_connections; it sends at most limit payloads.
CatSend(source, limit) ==
    /\ ~cat_fault
    /\ up_state[source] = "connected"
    /\ source \in DOMAIN cat_connections
    /\ up_sent[source] < limit
    /\ up_sent' = [up_sent EXCEPT ![source] = @ + 1]
    /\ CatStore(cat_transfer(CatState, up_sent[source] + 1, source))
    /\ UNCHANGED <<cat_reserved, cat_f_emit, cat_terminating, cat_terminated,
                   cat_fault, emitted, up_state>>
    /\ UNCHANGED notCat

\* Every upstream sends at most MaxSend payloads.
CatProcess(source) == CatSend(source, MaxSend)

\* An upstream flow terminates: Channel._f_terminated of the upstream calls
\* Catenation.f_terminate(context=upstream), which finds the connection
\* and calls cat_terminate.
CatUpstreamTerminate(subflow) ==
    /\ ~cat_fault
    /\ up_state[subflow] = "connected"
    /\ subflow \in DOMAIN cat_connections
    /\ up_state' = [up_state EXCEPT ![subflow] = "terminated"]
    /\ CatStore(cat_terminate(CatState, subflow))
    /\ UNCHANGED <<cat_reserved, cat_f_emit, cat_terminating, cat_terminated,
                   cat_fault, emitted, up_sent>>
    /\ UNCHANGED notCat

\* cat_flush finishing termination without looking at cat_order.
CatRunFlushEarly ==
    /\ ~cat_fault
    /\ cat_tasks # <<>> /\ Head(cat_tasks) = "cat_flush"
    /\ emitted' = IF cat_f_emit = "downstream" THEN emitted \o cat_events ELSE emitted
    /\ cat_events' = <<>>
    /\ cat_tasks' = Tail(cat_tasks)
    /\ IF cat_terminating
       THEN /\ cat_f_emit' = "discarding"
            /\ cat_terminated' = TRUE
            /\ cat_terminating' = FALSE
       ELSE UNCHANGED <<cat_f_emit, cat_terminated, cat_terminating>>
    /\ UNCHANGED <<cat_order, cat_connections, cat_flows, cat_reserved, cat_fault,
                   up_state, up_sent, up_obstructed>>
    /\ UNCHANGED notCat

\* The context runs the task at the head of its queue, Catenation.cat_flush:
\* emit the accumulated events; with no reservation left in a terminating
\* state, finish termination (_f_terminated).
CatRunFlush ==
    /\ ~cat_fault
    /\ cat_tasks # <<>> /\ Head(cat_tasks) = "cat_flush"
    /\ emitted' = IF cat_f_emit = "downstream" THEN emitted \o cat_events ELSE emitted
    /\ cat_events' = <<>>
    /\ cat_tasks' = Tail(cat_tasks)
    /\ IF cat_terminating /\ Len(cat_order) = 0
       THEN /\ cat_f_emit' = "discarding"
            /\ cat_terminated' = TRUE
            /\ cat_terminating' = FALSE
       ELSE UNCHANGED <<cat_f_emit, cat_terminated, cat_terminating>>
    /\ UNCHANGED <<cat_order, cat_connections, cat_flows, cat_reserved, cat_fault,
                   up_state, up_sent, up_obstructed>>
    /\ UNCHANGED notCat

\* Catenation.f_terminate(context) with a context that is no connected
\* sub-flow (cat_connections.get(context) is None): note the Catenation as
\* terminating and flush.
CatTerminate ==
    /\ ~cat_fault
    /\ ~cat_terminating /\ ~cat_terminated
    /\ emitted' = IF cat_f_emit = "downstream" THEN emitted \o cat_events ELSE emitted
    /\ cat_events' = <<>>
    /\ IF Len(cat_order) = 0
       THEN /\ cat_f_emit' = "discarding"
            /\ cat_terminated' = TRUE
            /\ cat_terminating' = FALSE
       ELSE /\ cat_terminating' = TRUE
            /\ UNCHANGED <<cat_f_emit, cat_terminated>>
    /\ UNCHANGED <<cat_order, cat_connections, cat_flows, cat_tasks, cat_reserved,
                   cat_fault, up_state, up_sent, up_obstructed>>
    /\ UNCHANGED notCat

\* Catenation.cat_drain raises when the head of line has no entry in
\* cat_flows (KeyError), no connection (cat_connections[None]) or no queue
\* (None.popleft), and on an empty cat_order (the assertion).
cat_drain_raises(c) ==
    \/ c.order = <<>>
    \/ Head(c.order) \notin DOMAIN c.flows
    \/ c.flows[Head(c.order)] = None
    \/ ~c.connections[c.flows[Head(c.order)]].hasq

\* cat_drain leaving the obstruction of the drained flow (C14's mutant).
cat_drain_noclear(c) ==
    LET f   == c.flows[Head(c.order)]
        cxn == c.connections[f]
        c1  == [c EXCEPT !.tasks = IF c.events = <<>> THEN Append(@, "cat_flush") ELSE @,
                         !.events = (@ \o <<(<<"initiate", cxn.layer>>)>>)
                             \o [i \in 1..Len(cxn.q) |-> <<"transfer", cxn.layer, cxn.q[i]>>],
                         !.connections[f].q = <<>>]
    IN  IF ~cxn.term
        THEN [c1 EXCEPT !.connections[f].hasq = FALSE]
        ELSE cat_transition(c1)

\* Catenation.cat_drain on a head of line that has a queue.
cat_drain(c) ==
    LET f   == c.flows[Head(c.order)]
        cxn == c.connections[f]
        c1  == [c EXCEPT !.tasks = IF c.events = <<>> THEN Append(@, "cat_flush") ELSE @,
                         !.events = (@ \o <<(<<"initiate", cxn.layer>>)>>)
                             \o [i \in 1..Len(cxn.q) |-> <<"transfer", cxn.layer, cxn.q[i]>>],
                         !.connections[f].q = <<>>]
    IN  IF ~cxn.term
        THEN [c1 EXCEPT !.connections[f].hasq = FALSE,
                        !.obstructed[f] = FALSE]
        ELSE cat_transition(c1)

\* The context runs the task at the head of its queue: cat_drain.  An
\* exception is trapped by ctx_enqueue_task and reported with fault(); the
\* fault interrupts the Catenation, whose f_emit then discards.
CatRunDrain ==
    /\ ~cat_fault
    /\ cat_tasks # <<>> /\ Head(cat_tasks) = "cat_drain"
    /\ LET c == [CatState EXCEPT !.tasks = Tail(@)]
       IN  IF cat_drain_raises(c)
           THEN /\ cat_fault' = TRUE
                /\ cat_f_emit' = "discarding"
                /\ cat_tasks' = c.tasks
                /\ UNCHANGED <<cat_order, cat_connections, cat_flows, cat_events,
                               up_obstructed>>
           ELSE /\ CatStore(cat_drain(c))
                /\ UNCHANGED <<cat_fault, cat_f_emit>>
    /\ UNCHANGED <<cat_reserved, cat_terminating, cat_terminated, emitted,
                   up_state, up_sent>>
    /\ UNCHANGED notCat

CatInit ==
    /\ cat_order = <<>>
    /\ cat_connections = <<>>
    /\ cat_flows = <<>>
    /\ cat_events = <<>>
    /\ cat_tasks = <<>>
    /\ cat_reserved = 0
    /\ cat_f_emit = "downstream"
    /\ cat_terminating = FALSE
    /\ cat_terminated = FALSE
    /\ cat_fault = FALSE
    /\ emitted = <<>>
    /\ up_state = [f \in Layers |-> "idle"]
    /\ up_sent = [f \in Layers |-> 0]
    /\ up_obstructed = [f \in Layers |-> FALSE]

\* Layers that all have an upstream; the upstream of the second layer
\* sends enough to overflow its queue, the others send one payload.
OverflowNext ==
    \/ CatReserve
    \/ \E l \in Layers : CatConnect(l, l)
    \/ \E f \in Layers : CatSend(f, IF f = 2 THEN MaxQueued ELSE 1)
    \/ \E f \in Layers : CatUpstreamTerminate(f)
    \/ CatRunFlush
    \/ CatRunDrain

\* The Catenation with its own termination; every upstream sends at most
\* one payload.
CatTermNext ==
    \/ CatReserve
    \/ \E l \in Layers : \E f \in {None, l} : CatConnect(l, f)
    \/ \E f \in Layers : CatSend(f, 1)
    \/ \E f \in Layers : CatUpstreamTerminate(f)
    \/ CatTerminate
    \/ CatRunFlush
    \/ CatRunDrain

CatNext ==
    \/ CatReserve
    \/ \E l \in Layers : \E f \in {None, l} : CatConnect(l, f)
    \/ \E f \in Layers : CatProcess(f)
    \/ \E f \in Layers : CatUpstreamTerminate(f)
    \/ CatTerminate
    \/ CatRunFlush
    \/ CatRunDrain



(***************************************************************************)
(* Division                                                                *)
(***************************************************************************)
\* Layer i is the i-th layer the protocol initiates; its consumer flow has
\* the same number.  The payloads of a layer are numbered in arrival order.
DivLayers == 1..MaxDivLayers

DivState == [flows |-> div_flows, queues |-> div_queues, delivered |-> div_delivered,
             drained |-> div_drained, fterm |-> div_fterm, calls |-> div_calls,
             watched |-> div_watched, fobs |-> div_fobs,
             obstructions |-> div_obstructions, terminated |-> div_terminated]

\* flow.process(payload, source=self) of the layer's consumer flow, which
\* discards once it was terminated.
div_deliver(d, layer, payloads) ==
    LET d1 == [d EXCEPT !.calls[layer] = @ \o payloads]
    IN  IF d.fterm[layer] = 0
        THEN [d1 EXCEPT !.delivered[layer] = @ \o payloads]
        ELSE d1

\* flow.f_terminate(self) of the layer's consumer flow.
div_flow_terminate(d, layer) ==
    [d EXCEPT !.fterm[layer] = @ + 1, !.calls[layer] = Append(@, 0)]

\* flow.f_watch(self.f_obstruct, self.f_clear): the pair is added to the
\* flow's monitors and an obstructed flow calls f_obstruct at once.
div_watch(d, layer) ==
    [d EXCEPT !.watched[layer] = TRUE,
              !.obstructions = IF d.fobs[layer] THEN @ \cup {layer} ELSE @]

\* flow.f_ignore(self.f_obstruct, self.f_clear): the pair is discarded.
div_ignore(d, layer) ==
    [d EXCEPT !.watched[layer] = FALSE]

\* div_connect dropping the queue without draining it (C15's mutant).
div_connect_nodrain(d, layer) ==
    LET d1 == [div_watch(d, layer) EXCEPT
                  !.flows[layer] = "flow",
                  !.queues[layer] = [has |-> FALSE, q |-> <<>>]]
    IN  IF d.flows[layer] = "terminate"
        THEN div_flow_terminate(d1, layer)
        ELSE d1

\* div_connect terminating the flow of a closed layer before draining the
\* layer's queue into it.
div_connect_early(d, layer) ==
    LET q  == d.queues[layer].q
        d0 == IF d.flows[layer] = "terminate"
              THEN div_flow_terminate(div_watch(d, layer), layer)
              ELSE div_watch(d, layer)
    IN  [div_deliver(d0, layer, q) EXCEPT
            !.flows[layer] = "flow",
            !.drained[layer] = @ + Len(q),
            !.queues[layer] = [has |-> FALSE, q |-> <<>>]]

\* Division.div_connect(layer, flow) with a flow.
div_connect(d, layer) ==
    LET q  == d.queues[layer].q
        d1 == [div_deliver(div_watch(d, layer), layer, q) EXCEPT
                  !.flows[layer] = "flow",
                  !.drained[layer] = @ + Len(q),
                  !.queues[layer] = [has |-> FALSE, q |-> <<>>]]
    IN  IF d.flows[layer] = "terminate"
        THEN div_flow_terminate(d1, layer)
        ELSE d1

\* Division.div_transfer for a layer with an entry in div_flows that is not
\* the terminate note.
div_transfer(d, layer, subflow_transfer) ==
    IF d.flows[layer] = "none"
    THEN [d EXCEPT !.queues[layer] = [has |-> TRUE, q |-> Append(@.q, subflow_transfer)]]
    ELSE div_deliver(d, layer, <<subflow_transfer>>)

\* Division.div_terminate; its assertion looks the layer up in the
\* defaultdict div_queues, which creates the layer's queue.
div_terminate(d, layer) ==
    IF d.flows[layer] # "unset"
    THEN LET d1 == IF d.flows[layer] = "none"
                   THEN [d EXCEPT !.flows[layer] = "terminate"]
                   ELSE div_flow_terminate(
                            div_ignore([d EXCEPT !.flows[layer] = "unset"], layer),
                            layer)
         IN  [d1 EXCEPT !.queues[layer].has = TRUE]
    ELSE d

DivStore(d) ==
    /\ div_flows' = d.flows
    /\ div_queues' = d.queues
    /\ div_delivered' = d.delivered
    /\ div_drained' = d.drained
    /\ div_fterm' = d.fterm
    /\ div_calls' = d.calls
    /\ div_watched' = d.watched
    /\ div_fobs' = d.fobs
    /\ div_obstructions' = d.obstructions
    /\ div_terminated' = d.terminated
    /\ UNCHANGED <<catVars, chanVars, termVars, itVars, tfVars, schVars, spVars, pmVars, unVars, tcVars, ptVars, tpVars, kiVars, rcVars, secVars, koVars>>

\* Division.process([(initiate, layer)]): div_initiate, then the
\* initiation and its connect callback are emitted.
DivInitiate ==
    /\ ~div_terminated
    /\ div_count < MaxDivLayers
    /\ div_count' = div_count + 1
    /\ DivStore([DivState EXCEPT !.flows[div_count + 1] = "none"])
    /\ UNCHANGED div_arrived

\* Division.process([(transfer, layer, payload)]); the protocol sends a
\* layer's transfers between its initiate and its terminate.
DivTransfer(layer) ==
    /\ ~div_terminated
    /\ div_flows[layer] \in {"none", "flow"} /\ div_fterm[layer] = 0
    /\ Len(div_arrived[layer]) < MaxDivSend
    /\ LET payload == Len(div_arrived[layer]) + 1
       IN  /\ div_arrived' = [div_arrived EXCEPT ![layer] = Append(@, payload)]
           /\ DivStore(div_transfer(DivState, layer, payload))
    /\ UNCHANGED div_count

\* Division.process([(terminate, layer)]); the protocol terminates a layer
\* once, after its initiate.
DivTerminate(layer) ==
    /\ ~div_terminated
    /\ div_flows[layer] \in {"none", "flow"} /\ div_fterm[layer] = 0
    /\ DivStore(div_terminate(DivState, layer))
    /\ UNCHANGED <<div_count, div_arrived>>

\* The connect callback emitted for the layer is called, once, with the
\* layer's consumer flow or with None.
DivConnect(layer, flow) ==
    /\ div_flows[layer] \in {"none", "terminate"}
    /\ IF flow = None
       THEN DivStore([DivState EXCEPT !.flows[layer] = "unset"])
       ELSE DivStore(div_connect(DivState, layer))
    /\ UNCHANGED <<div_count, div_arrived>>

\* Division.interrupt: every entry of div_flows that holds a flow gets
\* f_terminate; the entries stay.
div_interrupt(d) ==
    [d EXCEPT !.fterm = [l \in DivLayers |->
                            IF d.flows[l] = "flow" THEN @[l] + 1 ELSE @[l]],
              !.calls = [l \in DivLayers |->
                            IF d.flows[l] = "flow" THEN Append(@[l], 0) ELSE @[l]]]

\* Division.f_terminate: interrupt, then Channel._f_terminated, after which
\* process discards.
DivFTerminate ==
    /\ ~div_terminated
    /\ DivStore([div_interrupt(DivState) EXCEPT !.terminated = TRUE])
    /\ UNCHANGED <<div_count, div_arrived>>

\* Channel.f_obstruct of a consumer flow by a party of its own: the first
\* obstruction is signalled to the flow's monitors.
DivFlowObstruct(layer) ==
    /\ ~div_fobs[layer]
    /\ DivStore([DivState EXCEPT
           !.fobs[layer] = TRUE,
           !.obstructions = IF div_watched[layer] THEN @ \cup {layer} ELSE @])
    /\ UNCHANGED <<div_count, div_arrived>>

\* Channel.f_clear of the consumer flow's obstruction: the monitors are
\* told that the flow is clear.
DivFlowClear(layer) ==
    /\ div_fobs[layer]
    /\ DivStore([DivState EXCEPT
           !.fobs[layer] = FALSE,
           !.obstructions = IF div_watched[layer] THEN @ \ {layer} ELSE @])
    /\ UNCHANGED <<div_count, div_arrived>>

DivInit ==
    /\ div_calls = [l \in DivLayers |-> <<>>]
    /\ div_watched = [l \in DivLayers |-> FALSE]
    /\ div_fobs = [l \in DivLayers |-> FALSE]
    /\ div_obstructions = {}
    /\ div_terminated = FALSE
    /\ div_flows = [l \in DivLayers |-> "unset"]
    /\ div_queues = [l \in DivLayers |-> [has |-> FALSE, q |-> <<>>]]
    /\ div_count = 0
    /\ div_arrived = [l \in DivLayers |-> <<>>]
    /\ div_delivered = [l \in DivLayers |-> <<>>]
    /\ div_drained = [l \in DivLayers |-> 0]
    /\ div_fterm = [l \in DivLayers |-> 0]

DivNext ==
    \/ DivInitiate
    \/ \E l \in DivLayers : DivTransfer(l)
    \/ \E l \in DivLayers : DivTerminate(l)
    \/ \E l \in DivLayers : \E flow \in {None, l} : DivConnect(l, flow)

\* The Division together with its own termination and the obstruction of
\* its consumer flows.
DivObsNext ==
    \/ DivNext
    \/ DivFTerminate
    \/ \E l \in DivLayers : DivFlowObstruct(l)
    \/ \E l \in DivLayers : DivFlowClear(l)

(***************************************************************************)
(* Iteration                                                               *)
(***************************************************************************)
\* The iterator yields the items 1..MaxItems.  An obstruction of the
\* Iteration is keyed by its downstream or by another party.
ItKeys == {"downstream", "other"}

ItState == [pos |-> it_pos, emitted |-> it_emitted, obs |-> it_obs, nobs |-> it_nobs,
            tasks |-> it_tasks, terminating |-> it_terminating,
            terminated |-> it_terminated]

\* Channel.terminate(by='end of iterator')
it_terminate(i) ==
    IF i.terminated \/ i.terminating
    THEN i
    ELSE [i EXCEPT !.terminating = TRUE, !.tasks = Append(@, "_f_terminated")]

\* f_emit(x, source=self): the downstream's process, f_discarding once the
\* Iteration is terminated.
it_emit(i, n) ==
    [i EXCEPT !.pos = @ + n,
              !.emitted = IF i.terminated THEN @
                          ELSE @ \o [k \in 1..n |-> i.pos + k]]

\* Iteration.it_transition.  The loop emits an item and then looks at
\* f_obstructed: n is the number of items emitted before the loop ends, and
\* obstructs tells whether the downstream obstructed the Iteration while it
\* processed the last of them.
it_transition(i, n, obstructs) ==
    IF i.pos = MaxItems
    THEN it_terminate(i)
    ELSE IF i.obs # {}
    THEN it_emit(i, 1)
    ELSE IF obstructs
    THEN [it_emit(i, n) EXCEPT !.obs = {"downstream"}, !.nobs = @ + 1]
    ELSE it_terminate(it_emit(i, MaxItems - i.pos))

\* f_clear that does not enqueue it_transition (C16's mutant).
it_f_clear_base(i, obstruction) ==
    [i EXCEPT !.obs = @ \ {obstruction}]

\* Iteration.f_clear(obstruction)
it_f_clear(i, obstruction) ==
    IF obstruction \in i.obs /\ i.obs \ {obstruction} = {}
    THEN [i EXCEPT !.obs = {}, !.tasks = Append(@, "it_transition")]
    ELSE [i EXCEPT !.obs = @ \ {obstruction}]

ItStore(i) ==
    /\ it_pos' = i.pos
    /\ it_emitted' = i.emitted
    /\ it_obs' = i.obs
    /\ it_nobs' = i.nobs
    /\ it_tasks' = i.tasks
    /\ it_terminating' = i.terminating
    /\ it_terminated' = i.terminated
    /\ UNCHANGED <<catVars, chanVars, termVars, divVars, tfVars, schVars, spVars, pmVars, unVars, tcVars, ptVars, tpVars, kiVars, rcVars, secVars, koVars>>

\* Iteration.actuate
ItActuate ==
    /\ ~it_actuated
    /\ it_actuated' = TRUE
    /\ ItStore(IF it_obs = {}
               THEN [ItState EXCEPT !.tasks = Append(@, "it_transition")]
               ELSE ItState)

\* f_obstruct(by) called on the Iteration between two tasks.
ItObstruct(by) ==
    /\ it_nobs < MaxItObs
    /\ ItStore([ItState EXCEPT !.obs = @ \cup {by}, !.nobs = @ + 1])
    /\ UNCHANGED it_actuated

\* f_clear(key) called on the Iteration between two tasks.
ItClear(key) ==
    /\ key \in it_obs
    /\ ItStore(it_f_clear(ItState, key))
    /\ UNCHANGED it_actuated

\* The context runs the task at the head of its queue: it_transition, or
\* the _f_terminated that terminate enqueued.
ItRun ==
    /\ it_tasks # <<>>
    /\ LET i == [ItState EXCEPT !.tasks = Tail(@)]
       IN  IF Head(it_tasks) = "it_transition"
           THEN \/ ItStore(it_transition(i, 1, FALSE))
                \/ \E n \in 1..(MaxItems - it_pos) :
                      /\ it_obs = {} /\ it_nobs < MaxItObs
                      /\ ItStore(it_transition(i, n, TRUE))
           ELSE ItStore([i EXCEPT !.terminated = TRUE, !.terminating = FALSE])
    /\ UNCHANGED it_actuated

ItInit ==
    /\ it_actuated = FALSE
    /\ it_pos = 0
    /\ it_emitted = <<>>
    /\ it_obs = {}
    /\ it_nobs = 0
    /\ it_tasks = <<>>
    /\ it_terminating = FALSE
    /\ it_terminated = FALSE

ItNext ==
    \/ ItActuate
    \/ \E by \in ItKeys : ItObstruct(by)
    \/ \E key \in ItKeys : ItClear(key)
    \/ ItRun

(***************************************************************************)
(* Transports pair                                                         *)
(***************************************************************************)
\* The two Transports of a pair, named by the polarity given to __init__:
\* 1 receives (input), -1 sends (output).  They share the stack of layers.
Sides == {1, -1}
TfLayers == 1..MaxTfLayers

\* self.polarity: __init__(polarity) stores its argument as tf_polarity, so
\* polarity is the class attribute on every instance.
polarity(side) == 0

\* A process pass of one side over its operations.  ops[0](events) of a
\* layer moves what the layer held for this side and, for the layers in
\* gen, leaves transfers for the opposite side; ops[2]() tells whether the
\* layer holds transfers for the opposite side.  When a layer does, the
\* opposite's process(()) runs; the layers in stuck still hold their
\* transfers afterwards.  Each pass ends its loop with f_emit.  The result
\* is the layers' state, the x computed after the opposite's pass, whether
\* the pass raised, and the f_emit calls made.
tf_process(side, gen, stuck) ==
    LET p1 == [l \in TfLayers |->
                  (tf_pending[l] \ {side}) \cup (IF l \in gen THEN {-side} ELSE {})]
        opposite_has_work == \E l \in TfLayers : -side \in p1[l]
        p2 == IF opposite_has_work
              THEN [l \in TfLayers |-> IF l \in stuck THEN p1[l] ELSE p1[l] \ {-side}]
              ELSE p1
        x  == opposite_has_work /\ \E l \in TfLayers : -side \in p2[l]
    IN  [pending |-> p2, x |-> x,
         raised |-> x /\ polarity(side) = -1 /\ tf_terminating[-side],
         emitted |-> [tf_emitted EXCEPT ![side] = @ + 1,
                                        ![-side] = IF opposite_has_work THEN @ + 1 ELSE @]]

TfStore(r, side) ==
    /\ tf_pending' = r.pending
    /\ tf_raised' = r.raised
    /\ tf_last' = [side |-> side, x |-> r.x]
    /\ tf_emitted' = r.emitted
    /\ UNCHANGED <<catVars, chanVars, termVars, divVars, itVars, schVars, spVars, pmVars, unVars, tcVars, ptVars, tpVars, kiVars, rcVars, secVars, koVars>>

\* Transports.process(events) on one side; no layer is terminated, so the
\* loop that pops terminated layers does nothing.
TfProcess(side, gen, stuck) ==
    /\ \A sd \in Sides : tf_emitted[sd] < MaxTfEmit
    /\ TfStore(tf_process(side, gen, stuck), side)
    /\ UNCHANGED tf_terminating

\* Transports.f_terminate on the input side: termination starts, every
\* layer is told terminate(1), and tf_empty runs a process pass.
TfTerminate(gen, stuck) ==
    /\ ~tf_terminating[1]
    /\ tf_terminating' = [tf_terminating EXCEPT ![1] = TRUE]
    /\ TfStore(tf_process(1, gen, stuck), 1)

TfInit ==
    /\ tf_pending = [l \in TfLayers |-> {}]
    /\ tf_terminating = [side \in Sides |-> FALSE]
    /\ tf_raised = FALSE
    /\ tf_last = [side |-> 0, x |-> FALSE]
    /\ tf_emitted = [side \in Sides |-> 0]

TfNext ==
    \/ \E side \in Sides : \E gen \in SUBSET TfLayers : \E stuck \in SUBSET TfLayers :
          TfProcess(side, gen, stuck)
    \/ \E gen \in SUBSET TfLayers : \E stuck \in SUBSET TfLayers : TfTerminate(gen, stuck)

(***************************************************************************)
(* Scheduler                                                               *)
(***************************************************************************)
\* Time is counted in units; a task is deferred by 1..MaxMeasure units and
\* the tasks are numbered in the order of the defer calls.
SchState == [schedule |-> sch_schedule, registered |-> sch_registered,
             reference |-> sch_reference, executed |-> sch_executed,
             fault |-> sch_fault]

\* The deadline of the earliest pending entry.
sch_earliest(schedule) ==
    CHOOSE d \in {e[1] : e \in schedule} : \A e \in schedule : d <= e[1]

\* state.period(): the time left until the earliest deadline, nil (None)
\* when nothing is scheduled.
sch_period(schedule) ==
    IF schedule = {} THEN [isnil |-> TRUE, p |-> 0]
    ELSE [isnil |-> FALSE, p |-> sch_earliest(schedule) - sch_now]

\* state.get(): the entries whose deadline has passed, earliest first (and
\* in the order they were put among equal deadlines).
RECURSIVE sch_sorted(_)
sch_sorted(entries) ==
    IF entries = {} THEN <<>>
    ELSE LET e == CHOOSE x \in entries :
                      \A y \in entries : x[1] < y[1] \/ (x[1] = y[1] /\ x[2] <= y[2])
         IN  <<e>> \o sch_sorted(entries \ {e})

sch_get(schedule) == sch_sorted({e \in schedule : e[1] <= sch_now})

\* Scheduler.update: cancel the previous reference, register a new one
\* with the context for the current period.
sch_update(st) ==
    [st EXCEPT !.reference = TRUE,
               !.registered = sch_now + sch_period(st.schedule).p]

\* defer that never moves the registered transition (C20's mutant).
sch_defer_late(st, measure, task) ==
    LET p   == sch_period(st.schedule)
        st1 == [st EXCEPT !.schedule = @ \cup {<<sch_now + measure, task>>}]
    IN  IF p.isnil THEN sch_update(st1) ELSE st1

\* Scheduler.defer(measure, task)
sch_defer(st, measure, task) ==
    LET p   == sch_period(st.schedule)
        st1 == [st EXCEPT !.schedule = @ \cup {<<sch_now + measure, task>>}]
    IN  IF p.isnil
        THEN sch_update(st1)
        ELSE IF sch_period(st1.schedule).p < p.p THEN sch_update(st1) ELSE st1

\* Scheduler.transition on a functioning scheduler whose tasks return.
sch_transition(st) ==
    LET tasks == sch_get(st.schedule)
        st1 == [st EXCEPT !.schedule = {e \in @ : e[1] > sch_now},
                          !.executed = @ \o tasks,
                          !.registered = None]
    IN  IF ~sch_period(st1.schedule).isnil
        THEN sch_update(st1)
        ELSE IF st1.reference
        THEN [st1 EXCEPT !.reference = FALSE]
        ELSE [st1 EXCEPT !.fault = TRUE]

SchStore(st) ==
    /\ sch_schedule' = st.schedule
    /\ sch_registered' = st.registered
    /\ sch_reference' = st.reference
    /\ sch_executed' = st.executed
    /\ sch_fault' = st.fault
    /\ UNCHANGED <<catVars, chanVars, termVars, divVars, itVars, tfVars, spVars, pmVars, unVars, tcVars, ptVars, tpVars, kiVars, rcVars, secVars, koVars>>

\* scheduler.defer(measure, task) with a new task.
SchDefer(measure) ==
    /\ ~sch_fault
    /\ sch_count < MaxTasks
    /\ sch_now + measure <= MaxTime
    /\ sch_count' = sch_count + 1
    /\ SchStore(sch_defer(SchState, measure, sch_count + 1))
    /\ UNCHANGED sch_now

\* A unit of time passes.
SchTick ==
    /\ sch_now < MaxTime
    /\ sch_now' = sch_now + 1
    /\ SchStore(SchState)
    /\ UNCHANGED sch_count

\* The context calls the registered reference once its period has elapsed:
\* Scheduler.transition.
SchTransition ==
    /\ ~sch_fault
    /\ sch_registered # None /\ sch_registered <= sch_now
    /\ SchStore(sch_transition(SchState))
    /\ UNCHANGED <<sch_now, sch_count>>

SchInit ==
    /\ sch_now = 1
    /\ sch_schedule = {}
    /\ sch_registered = None
    /\ sch_reference = FALSE
    /\ sch_executed = <<>>
    /\ sch_count = 0
    /\ sch_fault = FALSE

SchNext ==
    \/ \E measure \in 1..MaxMeasure : SchDefer(measure)
    \/ SchTick
    \/ SchTransition

(***************************************************************************)
(* Subprocess: dispatch.Subprocess and library.Subprocess                  *)
(***************************************************************************)
SpPids == 1..NPids
SpOutside == NPids + 1

SpState == [class |-> sp_class, kernel |-> sp_kernel, status |-> sp_status,
            active |-> sp_active, has_active |-> sp_has_active,
            interrupted |-> sp_interrupted, terminating |-> sp_terminating,
            terminated |-> sp_terminated, exits |-> sp_exits, raised |-> "none"]

\* dispatch.Subprocess.sp_waiting
sp_waiting(sp) == SpPids \ sp.status

\* dispatch.Subprocess.sp_reaped
sp_reaped(sp) == Cardinality(SpPids) = Cardinality(sp.status)

\* core.Context.xact_exit_if_empty: the transaction of a Subprocess has no
\* subtransactions, so its exit is signalled to the controller.
xact_exit_if_empty(sp) == [sp EXCEPT !.exits = @ + 1]

\* dispatch.Subprocess.sp_exit
sp_exit_dispatch(sp, pid) ==
    IF pid \notin SpPids
    THEN [sp EXCEPT !.raised = "RuntimeError"]
    ELSE LET s1 == [sp EXCEPT !.status = @ \cup {pid}]
         IN IF sp_reaped(s1) /\ ~s1.interrupted
            THEN xact_exit_if_empty(s1)
            ELSE s1

\* library.Subprocess.sp_exit
sp_exit_library(sp, pid) ==
    LET s1 == [sp EXCEPT !.status = @ \cup {pid}]
    IN IF ~s1.has_active
       THEN [s1 EXCEPT !.raised = "AttributeError"]
       ELSE LET s2 == [s1 EXCEPT !.active = @ \ {pid}]
            IN IF s2.active = {}
               THEN LET s3 == [s2 EXCEPT !.has_active = FALSE, !.terminated = TRUE,
                                         !.terminating = FALSE]
                    IN IF ~s3.interrupted
                       THEN [s3 EXCEPT !.exits = @ + 1]
                       ELSE s3
               ELSE s2

sp_exit(sp, pid) ==
    IF sp.class = "dispatch" THEN sp_exit_dispatch(sp, pid) ELSE sp_exit_library(sp, pid)

\* The pids the validation of actuate iterates over.
sp_tracked(sp) == IF sp.class = "dispatch" THEN SpPids ELSE sp.active

\* actuate with the validation left out: the events are connected and nothing else.
sp_validate_none(sp) == sp

\* The validation loop of actuate: the exit of a pid that is already gone is
\* synthesized and the loop starts over.  library.Subprocess reads
\* active_processes at each start, which the last exit has deleted.
RECURSIVE sp_validate(_)
sp_validate(sp) ==
    IF sp.class = "library" /\ ~sp.has_active
    THEN [sp EXCEPT !.raised = "AttributeError"]
    ELSE LET gone == {pid \in sp_tracked(sp) : sp.kernel[pid] = "gone"}
         IN IF gone = {}
            THEN sp
            ELSE LET pid == CHOOSE p \in gone : \A q \in gone : p <= q
                 IN sp_validate(sp_exit([sp EXCEPT !.kernel[pid] = "done"], pid))

\* sp_signal(9): a running child that is signalled exits; its exit is an
\* event when the pid is subscribed and goes unobserved otherwise.
sp_kill(sp, pids, subscribed) ==
    [sp EXCEPT !.kernel = [pid \in SpPids |->
        IF pid \in pids /\ sp.kernel[pid] = "running"
        THEN (IF subscribed THEN "event" ELSE "gone")
        ELSE sp.kernel[pid]]]

SpStore(sp, op, pid) ==
    /\ sp_kernel' = sp.kernel
    /\ sp_status' = sp.status
    /\ sp_active' = sp.active
    /\ sp_has_active' = sp.has_active
    /\ sp_interrupted' = sp.interrupted
    /\ sp_terminating' = sp.terminating
    /\ sp_terminated' = sp.terminated
    /\ sp_exits' = sp.exits
    /\ sp_raised' = sp.raised
    /\ sp_last' = [op |-> op, pid |-> pid]
    /\ UNCHANGED sp_class
    /\ UNCHANGED <<catVars, chanVars, termVars, divVars, itVars, tfVars, schVars, pmVars, unVars, tcVars, ptVars, tpVars, kiVars, rcVars, secVars, koVars>>

\* dispatch.Subprocess(reap, invocations) or library.Subprocess(*pids) is
\* constructed over the pids of children that were spawned before.
SpCreate(class) ==
    /\ sp_class = "none"
    /\ sp_class' = class
    /\ sp_last' = [op |-> "create", pid |-> None]
    /\ UNCHANGED <<sp_kernel, sp_subscribed, sp_actuated, sp_status, sp_active,
                   sp_has_active, sp_interrupted, sp_terminating, sp_terminated,
                   sp_exits, sp_raised>>
    /\ UNCHANGED <<catVars, chanVars, termVars, divVars, itVars, tfVars, schVars, pmVars, unVars, tcVars, ptVars, tpVars, kiVars, rcVars, secVars, koVars>>

\* A child of the set exits on its own.
SpChildExit(pid) ==
    /\ sp_kernel[pid] = "running"
    /\ SpStore(sp_kill(SpState, {pid}, sp_subscribed), "child_exit", pid)
    /\ UNCHANGED <<sp_subscribed, sp_actuated>>

\* Subprocess.actuate
SpActuate ==
    /\ sp_class # "none"
    /\ ~sp_subscribed
    /\ sp_subscribed' = TRUE
    /\ LET sp == sp_validate(SpState)
       IN /\ sp_actuated' = (sp.raised = "none")
          /\ SpStore(sp, "actuate", None)

\* The exit event of a subscribed pid is delivered to sp_exit.
SpDeliver(pid) ==
    /\ sp_class # "none"
    /\ sp_kernel[pid] = "event"
    /\ SpStore(sp_exit([SpState EXCEPT !.kernel[pid] = "done"], pid), "sp_exit", pid)
    /\ UNCHANGED <<sp_subscribed, sp_actuated>>

\* sp_exit called with a pid that is not in the set.
SpExitOutside ==
    /\ sp_class # "none"
    /\ SpStore(sp_exit(SpState, SpOutside), "sp_exit", SpOutside)
    /\ UNCHANGED <<sp_subscribed, sp_actuated>>

\* Subprocess.interrupt
SpInterrupt ==
    /\ sp_class # "none"
    /\ ~sp_interrupted
    /\ LET s1 == [SpState EXCEPT !.interrupted = TRUE]
       IN IF sp_class = "dispatch"
          THEN SpStore(sp_kill(s1, sp_waiting(s1), sp_subscribed), "interrupt", None)
          ELSE IF ~s1.has_active
               THEN SpStore([s1 EXCEPT !.raised = "AttributeError"], "interrupt", None)
               ELSE SpStore(sp_kill(s1, s1.active, sp_subscribed), "interrupt", None)
    /\ UNCHANGED <<sp_subscribed, sp_actuated>>

\* Subprocess.terminate: SIGTERM is sent; whether a child exits on it is
\* the child's choice (SpChildExit).
SpTerminate ==
    /\ sp_class # "none"
    /\ ~sp_terminating
    /\ IF sp_class = "dispatch"
       THEN SpStore([SpState EXCEPT !.terminating = TRUE], "terminate", None)
       ELSE LET functioning == sp_actuated /\ ~sp_terminated /\ ~sp_interrupted
                s1 == IF functioning THEN [SpState EXCEPT !.terminating = TRUE] ELSE SpState
            IN IF ~s1.has_active
               THEN SpStore([s1 EXCEPT !.raised = "AttributeError"], "terminate", None)
               ELSE SpStore(s1, "terminate", None)
    /\ UNCHANGED <<sp_subscribed, sp_actuated>>

SpInit ==
    /\ sp_class = "none"
    /\ sp_kernel = [pid \in SpPids |-> "running"]
    /\ sp_subscribed = FALSE
    /\ sp_actuated = FALSE
    /\ sp_status = {}
    /\ sp_active = SpPids
    /\ sp_has_active = TRUE
    /\ sp_interrupted = FALSE
    /\ sp_terminating = FALSE
    /\ sp_terminated = FALSE
    /\ sp_exits = 0
    /\ sp_raised = "none"
    /\ sp_last = [op |-> "init", pid |-> None]

SpNext ==
    \/ \E class \in {"dispatch", "library"} : SpCreate(class)
    \/ \E pid \in SpPids : SpChildExit(pid)
    \/ SpActuate
    \/ \E pid \in SpPids : SpDeliver(pid)
    \/ SpExitOutside
    \/ SpInterrupt
    \/ SpTerminate

(***************************************************************************)
(* ProcessManager (daemon.py)                                              *)
(***************************************************************************)
ForkIds == 1..Concurrency

PmState == [terminating |-> pm_terminating, terminated |-> pm_terminated,
            procs |-> pm_procs, subprocess |-> pm_subprocess,
            last_exit |-> pm_last_exit, xacts |-> pm_xacts,
            exited |-> pm_exited, signalled |-> pm_signalled]

\* ProcessManager.ctl_fork: the new child gets the next pid and the fork id
\* fid; its Subprocess {pid: fid} is recorded and dispatched.
ctl_fork(pm, fid) ==
    LET pid == Len(pm.procs) + 1
    IN [pm EXCEPT !.procs = Append(@, fid),
                  !.subprocess[fid] = pid,
                  !.xacts = @ \cup {pid}]

RECURSIVE pm_actuate(_, _)
pm_actuate(pm, i) ==
    IF i > Concurrency THEN pm ELSE pm_actuate(ctl_fork(pm, i), i + 1)

\* ProcessManager.xact_exit with the terminating test left out.
xact_exit_restart(pm, pid) ==
    LET fid == pm.procs[pid]
        p1 == [pm EXCEPT !.subprocess[fid] = None, !.last_exit[fid] = pid]
    IN IF fid < Concurrency + 1 THEN ctl_fork(p1, fid) ELSE p1

\* ProcessManager.xact_exit
xact_exit(pm, pid) ==
    IF pm.terminating
    THEN pm
    ELSE LET fid == pm.procs[pid]
             p1 == [pm EXCEPT !.subprocess[fid] = None, !.last_exit[fid] = pid]
         IN IF fid < Concurrency + 1 THEN ctl_fork(p1, fid) ELSE p1

\* ProcessManager.xact_void
xact_void(pm) ==
    IF pm.terminating THEN [pm EXCEPT !.terminated = TRUE] ELSE pm

PmStore(pm) ==
    /\ pm_terminating' = pm.terminating
    /\ pm_terminated' = pm.terminated
    /\ pm_procs' = pm.procs
    /\ pm_subprocess' = pm.subprocess
    /\ pm_last_exit' = pm.last_exit
    /\ pm_xacts' = pm.xacts
    /\ pm_exited' = pm.exited
    /\ pm_signalled' = pm.signalled
    /\ UNCHANGED <<catVars, chanVars, termVars, divVars, itVars, tfVars, schVars, spVars, unVars, tcVars, ptVars, tpVars, kiVars, rcVars, secVars, koVars>>

\* ProcessManager.actuate
PmActuate ==
    /\ ~pm_actuated
    /\ pm_actuated' = TRUE
    /\ PmStore(pm_actuate(PmState, 1))

\* A worker exits (killed from outside, or after the SIGTERM of terminate).
PmChildExit(pid) ==
    /\ pid \in pm_xacts \ pm_exited
    /\ PmStore([PmState EXCEPT !.exited = @ \cup {pid}])
    /\ UNCHANGED pm_actuated

\* The exit of the Subprocess of pid reaches the manager: xact_exit is called,
\* the transaction leaves the sector, and xact_void follows when none is left.
PmXactExit(pid) ==
    /\ pid \in pm_exited
    /\ pm_terminating \/ Len(pm_procs) < MaxForks
    /\ LET p1 == xact_exit(PmState, pid)
           p2 == [p1 EXCEPT !.xacts = @ \ {pid}, !.exited = @ \ {pid}]
       IN PmStore(IF p2.xacts = {} THEN xact_void(p2) ELSE p2)
    /\ UNCHANGED pm_actuated

\* ProcessManager.terminate
PmTerminate ==
    /\ pm_actuated
    /\ ~pm_terminating
    /\ LET p1 == [PmState EXCEPT !.terminating = TRUE, !.signalled = pm_xacts]
       IN PmStore(IF p1.xacts = {} THEN xact_void(p1) ELSE p1)
    /\ UNCHANGED pm_actuated

PmInit ==
    /\ pm_actuated = FALSE
    /\ pm_terminating = FALSE
    /\ pm_terminated = FALSE
    /\ pm_procs = <<>>
    /\ pm_subprocess = [fid \in ForkIds |-> None]
    /\ pm_last_exit = [fid \in ForkIds |-> None]
    /\ pm_xacts = {}
    /\ pm_exited = {}
    /\ pm_signalled = {}

PmNext ==
    \/ PmActuate
    \/ \E pid \in 1..MaxForks : PmChildExit(pid)
    \/ \E pid \in 1..MaxForks : PmXactExit(pid)
    \/ PmTerminate

(***************************************************************************)
(* Unit: place, listdir, exited and terminate (library.py)                 *)
(***************************************************************************)
Names == {"bin", "a", "b"}
Addresses == UNION {[1..n -> Names] : n \in 0..MaxDepth}

\* The objects placed: processors 1 and 2, and an object that is not hashable.
UnProcs == {1, 2}
Unhashable == Cardinality(UnProcs) + 1
UnObjs == UnProcs \cup {Unhashable}

\* An at-exit callback is identified by what it returns: "consume" returns
\* None (or a bool) and is discarded, "keep" returns another status.
Callbacks == {"consume", "keep"}

UnState == [index |-> un_index, reverse |-> un_reverse, hierarchy |-> un_hierarchy,
            exit |-> un_exit, ran |-> {}, tasks |-> un_tasks, raised |-> "none"]

set_item(f, k, v) == [x \in DOMAIN f \cup {k} |-> IF x = k THEN v ELSE f[x]]
del_item(f, k) == [x \in DOMAIN f \ {k} |-> f[x]]

\* The loop of Unit.place that builds out the path: p is the dictionary the
\* loop stands in, given as its path; a missing component is created in p
\* and p stays where it is.
RECURSIVE build_path(_, _, _, _)
build_path(h, p, destination, i) ==
    IF i > Len(destination)
    THEN h
    ELSE LET x == Append(p, destination[i])
         IN IF x \in h
            THEN build_path(h, x, destination, i + 1)
            ELSE build_path(h \cup {x}, p, destination, i + 1)

\* Unit.place
place(u, obj, destination) ==
    LET u1 == [u EXCEPT !.index = set_item(@, destination, obj)]
        u2 == [u1 EXCEPT !.hierarchy = build_path(@, <<>>, destination, 1)]
    IN IF destination = <<>>
       THEN [u2 EXCEPT !.index = del_item(@, destination), !.raised = "IndexError"]
       ELSE IF obj = Unhashable
            THEN [u2 EXCEPT !.index = del_item(@, destination), !.raised = "TypeError"]
            ELSE [u2 EXCEPT !.reverse = set_item(@, obj, destination)]

\* The keys of the dictionary at path p of the hierarchy.
keys(h, p) == {x \in Names : Append(p, x) \in h}

\* Unit.listdir: the keys of the directory at address; found is FALSE where
\* the code returns None.
listdir(h, address) ==
    IF address # <<>> /\ address \notin h
    THEN [found |-> FALSE, names |-> {}]
    ELSE [found |-> TRUE, names |-> keys(h, address)]

Prefix(p, q) == Len(p) <= Len(q) /\ SubSeq(q, 1, Len(p)) = p

\* The loop of Unit.exited over the at-exit callbacks, in the order the set
\* yields them: a callback that is discarded changes the size of the set
\* under iteration, and the next step of the loop raises RuntimeError.
RECURSIVE run_exits(_, _, _)
run_exits(u, order, i) ==
    IF i > Len(order)
    THEN u
    ELSE LET u1 == [u EXCEPT !.ran = @ \cup {order[i]}]
         IN IF order[i] = "consume"
            THEN [u1 EXCEPT !.exit = @ \ {order[i]}, !.raised = "RuntimeError"]
            ELSE run_exits(u1, order, i + 1)

\* Unit.exited
unit_exited(u, processor, order) ==
    IF processor \notin DOMAIN u.reverse
    THEN [u EXCEPT !.raised = "KeyError"]
    ELSE LET addr == u.reverse[processor]
             u1 == [u EXCEPT !.reverse = del_item(@, processor)]
         IN IF addr \notin DOMAIN u1.index
            THEN [u1 EXCEPT !.raised = "KeyError"]
            ELSE LET u2 == [u1 EXCEPT !.index = del_item(@, addr)]
                 IN IF addr \notin u2.hierarchy
                    THEN [u2 EXCEPT !.raised = "KeyError"]
                    ELSE LET u3 == [u2 EXCEPT !.hierarchy = {p \in @ : ~Prefix(addr, p)}]
                         IN IF addr[1] = "bin" /\ <<"bin">> \notin u3.hierarchy
                            THEN [u3 EXCEPT !.raised = "KeyError"]
                            ELSE IF addr[1] = "bin" /\ keys(u3.hierarchy, <<"bin">>) = {}
                            THEN LET u4 == IF u3.exit # {} THEN run_exits(u3, order, 1) ELSE u3
                                 IN IF u4.raised = "none" /\ u4.exit = {}
                                    THEN [u4 EXCEPT !.tasks = @ + 1]
                                    ELSE u4
                            ELSE u3

Orders(S) == {o \in [1..Cardinality(S) -> S] : \A x \in S : \E i \in DOMAIN o : o[i] = x}

UnStore(u) ==
    /\ un_index' = u.index
    /\ un_reverse' = u.reverse
    /\ un_hierarchy' = u.hierarchy
    /\ un_exit' = u.exit
    /\ un_ran' = u.ran
    /\ un_tasks' = u.tasks
    /\ un_raised' = u.raised
    /\ UNCHANGED <<catVars, chanVars, termVars, divVars, itVars, tfVars, schVars, spVars, pmVars, tcVars, ptVars, tpVars, kiVars, rcVars, secVars, koVars>>

\* unit.place(obj, *destination)
UnPlace(obj, destination) ==
    /\ un_nplace < MaxPlace
    /\ un_nplace' = un_nplace + 1
    /\ UnStore(place(UnState, obj, destination))
    /\ UNCHANGED <<un_terminated, un_process_exits>>

\* unit.atexit(callback)
UnAtexit(callback) ==
    /\ callback \notin un_exit
    /\ UnStore([UnState EXCEPT !.exit = @ \cup {callback}])
    /\ UNCHANGED <<un_terminated, un_process_exits, un_nplace>>

\* unit.exited(processor), called when a placed processor exits.
UnExited(processor, order) ==
    /\ processor \in DOMAIN un_reverse
    /\ UnStore(unit_exited(UnState, processor, order))
    /\ UNCHANGED <<un_terminated, un_process_exits, un_nplace>>

\* The enqueued Unit.terminate runs; the unit is the primary one of the
\* process and no result was stored, so the code is 0.
UnRunTerminate ==
    /\ un_tasks > 0
    /\ IF ~un_terminated
       THEN /\ un_process_exits' = Append(un_process_exits, 0)
            /\ un_terminated' = TRUE
       ELSE UNCHANGED <<un_terminated, un_process_exits>>
    /\ UnStore([UnState EXCEPT !.tasks = @ - 1])
    /\ UNCHANGED un_nplace

UnInit ==
    /\ un_index = [a \in {<<"bin">>} |-> None]
    /\ un_reverse = <<>>
    /\ un_hierarchy = {<<"bin">>}
    /\ un_exit = {}
    /\ un_ran = {}
    /\ un_tasks = 0
    /\ un_terminated = FALSE
    /\ un_process_exits = <<>>
    /\ un_nplace = 0
    /\ un_raised = "none"

UnNext ==
    \/ \E obj \in UnObjs, destination \in Addresses : UnPlace(obj, destination)
    \/ \E callback \in Callbacks : UnAtexit(callback)
    \/ \E processor \in UnProcs : \E order \in Orders(un_exit) : UnExited(processor, order)
    \/ UnRunTerminate

(***************************************************************************)
(* terminate() of a Processor, a Sector and a Channel, with its result     *)
(***************************************************************************)
TcState == [class |-> tc_class, actuated |-> tc_actuated, terminating |-> tc_terminating,
            terminated |-> tc_terminated, interrupted |-> tc_interrupted,
            processors |-> tc_processors, signalled |-> tc_signalled,
            tasks |-> tc_tasks, discarding |-> tc_discarding, exits |-> tc_exits,
            return |-> tc_return]

\* Processor.functioning
tc_functioning(o) == o.actuated /\ ~(o.terminated \/ o.interrupted)

\* Processor.terminate
processor_terminate(o) ==
    IF ~tc_functioning(o) \/ o.terminating
    THEN [o EXCEPT !.return = "False"]
    ELSE [o EXCEPT !.terminating = TRUE, !.return = "True"]

\* Sector.terminate
sector_terminate(o) ==
    LET o1 == processor_terminate(o)
    IN IF o1.return = "False"
       THEN o1
       ELSE IF o1.processors # {}
            THEN [o1 EXCEPT !.signalled = o1.processors]
            ELSE [o1 EXCEPT !.exits = @ + 1, !.terminated = TRUE, !.terminating = FALSE]

\* Channel.terminate
channel_terminate(o) ==
    IF o.terminated \/ o.terminating \/ o.interrupted
    THEN [o EXCEPT !.return = "False"]
    ELSE [o EXCEPT !.terminating = TRUE, !.tasks = @ + 1, !.return = "True"]

tc_terminate(o) ==
    CASE o.class = "Processor" -> processor_terminate(o)
      [] o.class = "Sector" -> sector_terminate(o)
      [] o.class = "Channel" -> channel_terminate(o)

TcStore(o) ==
    /\ tc_class' = o.class
    /\ tc_actuated' = o.actuated
    /\ tc_terminating' = o.terminating
    /\ tc_terminated' = o.terminated
    /\ tc_interrupted' = o.interrupted
    /\ tc_processors' = o.processors
    /\ tc_signalled' = o.signalled
    /\ tc_tasks' = o.tasks
    /\ tc_discarding' = o.discarding
    /\ tc_exits' = o.exits
    /\ tc_return' = o.return
    /\ UNCHANGED <<catVars, chanVars, termVars, divVars, itVars, tfVars, schVars, spVars, pmVars, unVars, ptVars, tpVars, kiVars, rcVars, secVars, koVars>>

\* The object is constructed and given to its controller; a Sector holds
\* the children dispatched into it.
TcCreate(class, n) ==
    /\ tc_class = "none"
    /\ class = "Sector" \/ n = 0
    /\ TcStore([TcState EXCEPT !.class = class, !.processors = 1..n])

\* actuate()
TcActuate ==
    /\ tc_class # "none" /\ ~tc_actuated
    /\ TcStore([TcState EXCEPT !.actuated = TRUE])

\* terminate()
TcTerminate ==
    /\ tc_class # "none"
    /\ TcStore(tc_terminate(TcState))

\* interrupt(): Processor.interrupt and Sector.interrupt note the
\* interruption; Channel.interrupt rebinds process and f_emit and notes
\* nothing.
TcInterrupt ==
    /\ tc_class # "none"
    /\ IF tc_class = "Channel"
       THEN TcStore([TcState EXCEPT !.discarding = TRUE])
       ELSE /\ ~tc_interrupted
            /\ TcStore([TcState EXCEPT !.interrupted = TRUE])

\* The enqueued Channel._f_terminated runs.
TcRun ==
    /\ tc_tasks > 0
    /\ TcStore([TcState EXCEPT !.tasks = @ - 1, !.discarding = TRUE,
                               !.terminated = TRUE, !.terminating = FALSE,
                               !.exits = @ + 1])

\* A child of the terminating Sector exits and is reaped; the exit of the
\* last one finishes the termination of the Sector.
TcReap(x) ==
    /\ tc_class = "Sector"
    /\ x \in tc_processors
    /\ tc_functioning(TcState)
    /\ LET o1 == [TcState EXCEPT !.processors = @ \ {x}, !.signalled = @ \ {x}]
       IN TcStore(IF o1.terminating /\ o1.processors = {}
                  THEN [o1 EXCEPT !.terminated = TRUE, !.terminating = FALSE, !.exits = @ + 1]
                  ELSE o1)

TcInit ==
    /\ tc_class = "none"
    /\ tc_actuated = FALSE
    /\ tc_terminating = FALSE
    /\ tc_terminated = FALSE
    /\ tc_interrupted = FALSE
    /\ tc_processors = {}
    /\ tc_signalled = {}
    /\ tc_tasks = 0
    /\ tc_discarding = FALSE
    /\ tc_exits = 0
    /\ tc_return = "none"

TcNext ==
    \/ \E class \in {"Processor", "Sector", "Channel"}, n \in 0..MaxChildren : TcCreate(class, n)
    \/ TcActuate
    \/ TcTerminate
    \/ TcInterrupt
    \/ TcRun
    \/ \E x \in 1..MaxChildren : TcReap(x)

(***************************************************************************)
(* Ports: bind, close and replace on one slot (library.py)                 *)
(***************************************************************************)
Endpoints == 1..NEndpoints

PtState == [sets |-> pt_sets, open |-> pt_open, nfd |-> pt_nfd, raised |-> "none"]

\* The keys of sets[slot].
pt_held(pt) == {ep \in Endpoints : pt.sets[ep] # None}

\* Ports.bind(slot, *endpoints): each endpoint is bound to a new descriptor.
RECURSIVE pt_bind(_, _)
pt_bind(pt, endpoints) ==
    IF endpoints = {}
    THEN pt
    ELSE LET ep == CHOOSE x \in endpoints : \A y \in endpoints : x <= y
             fd == pt.nfd + 1
         IN pt_bind([pt EXCEPT !.sets[ep] = fd, !.open = @ \cup {fd}, !.nfd = fd],
                    endpoints \ {ep})

\* Ports.close(slot, *endpoints)
RECURSIVE pt_close(_, _)
pt_close(pt, endpoints) ==
    IF endpoints = {}
    THEN pt
    ELSE LET x == CHOOSE y \in endpoints : \A z \in endpoints : y <= z
             fd == pt.sets[x]
             p1 == [pt EXCEPT !.sets[x] = None]
         IN pt_close(IF fd # None THEN [p1 EXCEPT !.open = @ \ {fd}] ELSE p1,
                     endpoints \ {x})

\* Ports.replace(slot, *endpoints).  It ends with self.close(slot, removed):
\* the set removed is passed as the one endpoint of the call, and
\* sd.pop(removed, None) raises TypeError for a key that is not hashable.
pt_replace(pt, endpoints) ==
    LET current_endpoints == pt_held(pt)
        delta == endpoints \ current_endpoints
        p1 == pt_bind(pt, delta)
    IN [p1 EXCEPT !.raised = "TypeError"]

PtStore(pt) ==
    /\ pt_sets' = pt.sets
    /\ pt_open' = pt.open
    /\ pt_nfd' = pt.nfd
    /\ pt_raised' = pt.raised
    /\ UNCHANGED <<catVars, chanVars, termVars, divVars, itVars, tfVars, schVars, spVars, pmVars, unVars, tcVars, tpVars, kiVars, rcVars, secVars, koVars>>

\* ports.bind(slot, *endpoints)
PtBind(endpoints) ==
    /\ endpoints # {}
    /\ pt_nfd + Cardinality(endpoints) <= MaxFds
    /\ PtStore(pt_bind(PtState, endpoints))

\* ports.close(slot, *endpoints)
PtClose(endpoints) ==
    /\ endpoints # {}
    /\ PtStore(pt_close(PtState, endpoints))

\* ports.replace(slot, *endpoints)
PtReplace(endpoints) ==
    /\ pt_nfd + Cardinality(endpoints \ pt_held(PtState)) <= MaxFds
    /\ PtStore(pt_replace(PtState, endpoints))

PtInit ==
    /\ pt_sets = [ep \in Endpoints |-> None]
    /\ pt_open = {}
    /\ pt_nfd = 0
    /\ pt_raised = "none"

PtNext ==
    \/ \E endpoints \in SUBSET Endpoints : PtBind(endpoints)
    \/ \E endpoints \in SUBSET Endpoints : PtClose(endpoints)
    \/ \E endpoints \in SUBSET Endpoints : PtReplace(endpoints)

(***************************************************************************)
(* Transports pair: f_terminate and the loop of process that pops the      *)
(* terminated layers.  The layers hold no transfers here (ops[2]() is      *)
(* false), so a pass goes straight to the loop; the transfers of a pass    *)
(* are the subject of tf_process.                                          *)
(***************************************************************************)
TpLayers == 1..MaxStack

TpState == [stack |-> tp_stack, ops |-> tp_ops, layer |-> tp_layer, down |-> tp_down,
            dsterm |-> tp_dsterm, terminating |-> tp_terminating,
            terminated |-> tp_terminated, raised |-> "none"]

Reverse(s) == [i \in 1..Len(s) |-> s[Len(s) + 1 - i]]
Front(s) == SubSeq(s, 1, Len(s) - 1)

\* layer.terminated: the layer has terminated in both directions.
layer_terminated(t, l) == t.layer[l] = Sides

\* Channel._f_terminated of one side of the pair
tp_f_terminated(t, side) ==
    LET t1 == [t EXCEPT !.terminated[side] = TRUE, !.terminating[side] = FALSE]
    IN IF t1.down[side] THEN [t1 EXCEPT !.dsterm[side] = @ + 1] ELSE t1

\* "while stack and stack[-1].terminated" of Transports.process, with its
\* else clause.  who is the side whose f_downstream is terminated and
\* disconnected: self on the input side, the opposite on the output side.
RECURSIVE tp_pop(_, _)
tp_pop(t, side) ==
    IF t.stack # <<>> /\ layer_terminated(t, t.stack[Len(t.stack)])
    THEN LET who == IF side = 1 THEN side ELSE -side
             t1 == [t EXCEPT !.stack = Front(@)]
             t2 == IF side = 1
                   THEN [t1 EXCEPT !.ops[side] = Front(@), !.ops[-side] = Tail(@)]
                   ELSE [t1 EXCEPT !.ops[side] = Tail(@), !.ops[-side] = Front(@)]
         IN IF ~t2.down[who]
            THEN [t2 EXCEPT !.raised = "AttributeError"]
            ELSE tp_pop([t2 EXCEPT !.dsterm[who] = @ + 1, !.down[who] = FALSE], side)
    ELSE IF t.stack = <<>>
         THEN LET t1 == IF t.terminating[side] THEN tp_f_terminated(t, side) ELSE t
              IN IF t1.terminating[-side] THEN tp_f_terminated(t1, -side) ELSE t1
         ELSE t

\* Transports.process(()) of one side
tp_process(t, side) ==
    IF t.ops[side] = <<>> THEN t ELSE tp_pop(t, side)

\* Transports.f_terminate
tp_f_terminate(t, side) ==
    IF t.stack = <<>>
    THEN tp_f_terminated(t, side)
    ELSE IF side = 1
         THEN LET t1 == [t EXCEPT !.terminating[side] = TRUE,
                                  !.layer = [l \in TpLayers |->
                                      IF \E i \in DOMAIN t.stack : t.stack[i] = l
                                      THEN @[l] \cup {1} ELSE @[l]]]
                  t2 == tp_process(t1, side)
              IN IF t2.raised # "none" \/ t2.stack = <<>>
                 THEN t2
                 ELSE IF t2.down[side]
                      THEN [t2 EXCEPT !.dsterm[side] = @ + 1]
                      ELSE [t2 EXCEPT !.raised = "AttributeError"]
         ELSE tp_process([t EXCEPT !.layer[t.stack[Len(t.stack)]] = @ \cup {side}], side)

TpStore(t) ==
    /\ tp_stack' = t.stack
    /\ tp_ops' = t.ops
    /\ tp_layer' = t.layer
    /\ tp_down' = t.down
    /\ tp_dsterm' = t.dsterm
    /\ tp_terminating' = t.terminating
    /\ tp_terminated' = t.terminated
    /\ tp_raised' = t.raised
    /\ UNCHANGED <<catVars, chanVars, termVars, divVars, itVars, tfVars, schVars, spVars, pmVars, unVars, tcVars, ptVars, kiVars, rcVars, secVars, koVars>>

\* Transports.create(transports) with a stack of n layers; both sides are
\* then connected to their downstreams.
TpCreate(n) ==
    /\ ~tp_created
    /\ tp_created' = TRUE
    /\ LET stack == [i \in 1..n |-> i]
       IN TpStore([TpState EXCEPT !.stack = stack,
                                  !.ops = [side \in Sides |->
                                      IF side = 1 THEN stack ELSE Reverse(stack)]])
    /\ UNCHANGED tp_called

\* The upstream of one side calls f_terminate.
TpTerminate(side) ==
    /\ tp_created
    /\ side \notin tp_called
    /\ tp_called' = tp_called \cup {side}
    /\ TpStore(tp_f_terminate(TpState, side))
    /\ UNCHANGED tp_created

\* A layer of the stack ends one of its directions on its own (its
\* protocol's close arrives or has been sent).
TpLayerTerminate(l, side) ==
    /\ \E i \in DOMAIN tp_stack : tp_stack[i] = l
    /\ side \notin tp_layer[l]
    /\ TpStore([TpState EXCEPT !.layer[l] = @ \cup {side}])
    /\ UNCHANGED <<tp_created, tp_called>>

\* A process pass of one side.
TpProcess(side) ==
    /\ tp_created
    /\ ~tp_terminated[side]
    /\ TpStore(tp_process(TpState, side))
    /\ UNCHANGED <<tp_created, tp_called>>

TpInit ==
    /\ tp_created = FALSE
    /\ tp_stack = <<>>
    /\ tp_ops = [side \in Sides |-> <<>>]
    /\ tp_layer = [l \in TpLayers |-> {}]
    /\ tp_down = [side \in Sides |-> TRUE]
    /\ tp_dsterm = [side \in Sides |-> 0]
    /\ tp_terminating = [side \in Sides |-> FALSE]
    /\ tp_terminated = [side \in Sides |-> FALSE]
    /\ tp_called = {}
    /\ tp_raised = "none"

TpNext ==
    \/ \E n \in 0..MaxStack : TpCreate(n)
    \/ \E side \in Sides : TpTerminate(side)
    \/ \E l \in TpLayers : \E side \in Sides : TpLayerTerminate(l, side)
    \/ \E side \in Sides : TpProcess(side)

(***************************************************************************)
(* KInput                                                                  *)
(***************************************************************************)
KiKeys == 1..NKiKeys

KiState == [resource |-> ki_resource, acquired |-> ki_acquired, stalled |-> ki_stalled]

\* KInput.k_transition: allocate a buffer and hand it to the kernel unless
\* the flow is obstructed.
ki_transition(k, obstructed) ==
    IF obstructed
    THEN [k EXCEPT !.stalled = TRUE]
    ELSE [k EXCEPT !.resource = "buffer", !.acquired = @ + 1, !.stalled = FALSE]

KiStore(k) ==
    /\ ki_resource' = k.resource
    /\ ki_acquired' = k.acquired
    /\ ki_stalled' = k.stalled
    /\ UNCHANGED <<catVars, chanVars, termVars, divVars, itVars, tfVars, schVars, spVars, pmVars, unVars, tcVars, ptVars, tpVars, rcVars, secVars, koVars>>

\* KInput.process(event): induces a transition if no transfer is occurring.
KiProcess ==
    /\ ki_acquired < MaxBuffers
    /\ IF ki_resource = "none"
       THEN KiStore(ki_transition(KiState, ki_obstructions # {}))
       ELSE KiStore(KiState)
    /\ UNCHANGED <<ki_obstructions, ki_injected>>

\* The kernel filled the buffer: the I/O loop injects it downstream and,
\* the resource being exhausted, calls k_transition.
KiTransfer ==
    /\ ki_resource = "buffer"
    /\ ki_acquired < MaxBuffers
    /\ ki_injected' = ki_injected + 1
    /\ KiStore(ki_transition([KiState EXCEPT !.resource = "none"], ki_obstructions # {}))
    /\ UNCHANGED ki_obstructions

\* Channel.f_obstruct(by) on the KInput, as its downstream does.
KiObstruct(by) ==
    /\ ki_obstructions' = ki_obstructions \cup {by}
    /\ UNCHANGED <<ki_resource, ki_acquired, ki_injected, ki_stalled>>
    /\ UNCHANGED <<catVars, chanVars, termVars, divVars, itVars, tfVars, schVars, spVars, pmVars, unVars, tcVars, ptVars, tpVars, rcVars, secVars, koVars>>

\* Kernel.f_clear(obstruction): Channel.f_clear and nothing else.
KiClear(obstruction) ==
    /\ ki_obstructions' = ki_obstructions \ {obstruction}
    /\ UNCHANGED <<ki_resource, ki_acquired, ki_injected, ki_stalled>>
    /\ UNCHANGED <<catVars, chanVars, termVars, divVars, itVars, tfVars, schVars, spVars, pmVars, unVars, tcVars, ptVars, tpVars, rcVars, secVars, koVars>>

KiInit ==
    /\ ki_resource = "none"
    /\ ki_obstructions = {}
    /\ ki_acquired = 0
    /\ ki_injected = 0
    /\ ki_stalled = FALSE

KiNext ==
    \/ KiProcess
    \/ KiTransfer
    \/ \E by \in KiKeys : KiObstruct(by)
    \/ \E key \in KiKeys : KiClear(key)

(***************************************************************************)
(* Recurrence                                                              *)
(***************************************************************************)
\* What target() returns: the next delay, or None.
Delays == {None} \cup (1..MaxDelay)

RcState == [actuated |-> rc_actuated, terminating |-> rc_terminating,
            terminated |-> rc_terminated, wait |-> rc_wait, count |-> rc_count,
            exits |-> rc_exits, sector |-> rc_sector]

\* Processor.terminate of the Recurrence: note it as terminating.
rc_terminate(r) ==
    IF ~(r.actuated /\ ~r.terminated) \/ r.terminating
    THEN r
    ELSE [r EXCEPT !.terminating = TRUE]

\* Recurrence.occur, with next_delay the value target() returns.
occur(r, next_delay) ==
    IF r.terminating
    THEN [r EXCEPT !.terminated = TRUE, !.exits = TRUE, !.wait = -1]
    ELSE [r EXCEPT !.count = @ + 1,
                   !.wait = IF next_delay # None THEN next_delay ELSE -1]

RcStore(r) ==
    /\ rc_actuated' = r.actuated
    /\ rc_terminating' = r.terminating
    /\ rc_terminated' = r.terminated
    /\ rc_wait' = r.wait
    /\ rc_count' = r.count
    /\ rc_exits' = r.exits
    /\ rc_sector' = r.sector
    /\ UNCHANGED <<catVars, chanVars, termVars, divVars, itVars, tfVars, schVars, spVars, pmVars, unVars, tcVars, ptVars, tpVars, kiVars, secVars, koVars>>

\* Scheduler.recurrence(callback): the Recurrence is dispatched in the
\* sector and actuated, which enqueues the first occur.
RcDispatch ==
    /\ ~rc_actuated /\ ~rc_sector.terminating /\ ~rc_sector.terminated
    /\ RcStore([RcState EXCEPT !.actuated = TRUE, !.wait = 0,
                               !.sector.processors = TRUE])

\* The context runs the enqueued occur, or the scheduler runs the
\* deferred one when its delay has elapsed.
RcOccur(next_delay) ==
    /\ rc_wait = 0
    /\ rc_count < MaxOccur \/ next_delay = None
    /\ RcStore(occur(RcState, next_delay))

\* Time passes for the deferred call.
RcElapse ==
    /\ rc_wait > 0
    /\ RcStore([RcState EXCEPT !.wait = @ - 1])

\* terminate() called on the Recurrence.
RcTerminate ==
    /\ rc_actuated /\ ~rc_terminating /\ ~rc_terminated
    /\ RcStore(rc_terminate(RcState))

\* Sector.terminate: the sector is noted as terminating and calls
\* terminate on its processors; without processors it terminates at once.
RcSectorTerminate ==
    /\ ~rc_sector.terminating /\ ~rc_sector.terminated
    /\ IF rc_sector.processors
       THEN RcStore([rc_terminate(RcState) EXCEPT !.sector.terminating = TRUE])
       ELSE RcStore([RcState EXCEPT !.sector.terminated = TRUE])

\* Sector.reap, enqueued by Sector.exited: the exited Recurrence is
\* removed and a sector without processors is terminated.
RcReap ==
    /\ rc_exits
    /\ RcStore([RcState EXCEPT !.exits = FALSE,
                               !.sector = [processors |-> FALSE, terminating |-> FALSE,
                                           terminated |-> TRUE]])

RcInit ==
    /\ rc_actuated = FALSE
    /\ rc_terminating = FALSE
    /\ rc_terminated = FALSE
    /\ rc_wait = -1
    /\ rc_count = 0
    /\ rc_exits = FALSE
    /\ rc_sector = [processors |-> FALSE, terminating |-> FALSE, terminated |-> FALSE]

RcNext ==
    \/ RcDispatch
    \/ \E next_delay \in Delays : RcOccur(next_delay)
    \/ RcElapse
    \/ RcTerminate
    \/ RcSectorTerminate
    \/ RcReap

(***************************************************************************)
(* Channel base: connection and obstruction                                *)
(***************************************************************************)
Chan == 1..NChan
\* External monitors and external obstruction keys are numbered after the
\* channels; a channel is also a key (f_obstruct(self) and the obstruction
\* a downstream passes up with by = downstream).
Watchers == (NChan + 1)..(NChan + NWatch)
ExtKeys == (NChan + 1)..(NChan + NKeys)

\* Channel 1 is a Mitre (f_type = 'mitre'), the others are plain channels.
f_type(c) == IF c = 1 THEN "mitre" ELSE "channel"

\* The obstruction state threaded through the calls monitors make.
ChanState == [obs |-> f_obstructions, mon |-> f_monitors,
              calls |-> [c \in Chan |-> [m \in Chan \cup Watchers |-> <<0, 0>>]]]

\* Channel.f_obstructed
f_obstructed(st, c) == ~st.obs[c].isnil

RECURSIVE f_obstruct(_, _, _, _), f_clear(_, _, _), notify(_, _, _, _)

\* f_obstruct signalling its monitors on every call (C3's mutant).
f_obstruct_always(st, c, by, condition) ==
    LET st1 == [st EXCEPT !.obs[c] = [isnil |-> FALSE, d |-> With(@.d, by, condition)]]
    IN  IF st.mon[c] # {} THEN notify(st1, c, st.mon[c], 1) ELSE st1

\* "for sentry in self.f_monitors: sentry[i](self)": a sentry of a channel u
\* is (u.f_obstruct, u.f_clear), called with by = the notifying channel c;
\* the call of an external monitor is counted.
notify(st, c, ms, i) ==
    IF ms = {} THEN st
    ELSE LET m == CHOOSE x \in ms : TRUE
             st1 == IF m \in Chan
                    THEN IF i = 1 THEN f_obstruct(st, m, c, "none") ELSE f_clear(st, m, c)
                    ELSE st
             st2 == [st1 EXCEPT !.calls[c][m][i] = @ + 1]
         IN  notify(st2, c, ms \ {m}, i)

\* Channel.f_obstruct(by, signal, condition)
f_obstruct(st, c, by, condition) ==
    LET first == st.obs[c].isnil \/ DOMAIN st.obs[c].d = {}
        st1 == [st EXCEPT !.obs[c] = [isnil |-> FALSE, d |-> With(@.d, by, condition)]]
    IN  IF first /\ st.mon[c] # {} THEN notify(st1, c, st.mon[c], 1) ELSE st1

\* The value f_clear(obstruction) returns: cleared, which is True when the
\* call removed the last obstruction.
f_clear_result(st, c, obstruction) ==
    LET f_obs == st.obs[c]
    IN  /\ ~f_obs.isnil /\ DOMAIN f_obs.d # {}
        /\ obstruction \in DOMAIN f_obs.d
        /\ DOMAIN Without(f_obs.d, obstruction) = {}

\* f_clear leaving the emptied map in place of None.
f_clear_keep(st, c, obstruction) ==
    LET f_obs == st.obs[c]
    IN  IF ~f_obs.isnil /\ DOMAIN f_obs.d # {} /\ obstruction \in DOMAIN f_obs.d
        THEN LET d1 == Without(f_obs.d, obstruction)
             IN  IF DOMAIN d1 = {}
                 THEN LET st1 == [st EXCEPT !.obs[c].d = d1]
                      IN  IF st.mon[c] # {} THEN notify(st1, c, st.mon[c], 2) ELSE st1
                 ELSE [st EXCEPT !.obs[c].d = d1]
        ELSE st

\* Channel.f_clear(obstruction)
f_clear(st, c, obstruction) ==
    LET f_obs == st.obs[c]
    IN  IF ~f_obs.isnil /\ DOMAIN f_obs.d # {} /\ obstruction \in DOMAIN f_obs.d
        THEN LET d1 == Without(f_obs.d, obstruction)
             IN  IF DOMAIN d1 = {}
                 THEN LET st1 == [st EXCEPT !.obs[c] = [isnil |-> TRUE, d |-> <<>>]]
                      IN  IF st.mon[c] # {} THEN notify(st1, c, st.mon[c], 2) ELSE st1
                 ELSE [st EXCEPT !.obs[c].d = d1]
        ELSE st

\* Channel.f_watch(obstructed, cleared) by the sentry m
f_watch(st, c, m) ==
    LET st1 == [st EXCEPT !.mon[c] = @ \cup {m}]
    IN  IF f_obstructed(st1, c) THEN notify(st1, c, {m}, 1) ELSE st1

\* Assign the threaded obstruction state and note the call made on c.
ChanStore(st, op, c) ==
    /\ f_obstructions' = st.obs
    /\ f_monitors' = st.mon
    /\ mon_calls' = st.calls
    /\ chan_last' = [op |-> op, c |-> c]

\* c.f_obstruct(by, None, condition) called from outside the network.
ChanObstruct(c, by, condition) ==
    /\ ChanStore(f_obstruct(ChanState, c, by, condition), "f_obstruct", c)
    /\ UNCHANGED <<f_downstream, f_upstream, f_emit, ch_process, chan_pair>>
    /\ UNCHANGED notChan

\* c.f_clear(key) called from outside the network.
ChanClear(c, key) ==
    /\ ChanStore(f_clear(ChanState, c, key), "f_clear", c)
    /\ UNCHANGED <<f_downstream, f_upstream, f_emit, ch_process, chan_pair>>
    /\ UNCHANGED notChan

\* c.f_watch(onObstruct, onClear) by an external monitor.
ChanWatch(c, w) ==
    /\ ChanStore(f_watch(ChanState, c, w), "f_watch", c)
    /\ UNCHANGED <<f_downstream, f_upstream, f_emit, ch_process, chan_pair>>
    /\ UNCHANGED notChan

\* c.f_ignore(onObstruct, onClear) by an external monitor.
ChanIgnore(c, w) ==
    /\ ChanStore([ChanState EXCEPT !.mon[c] = @ \ {w}], "f_ignore", c)
    /\ UNCHANGED <<f_downstream, f_upstream, f_emit, ch_process, chan_pair>>
    /\ UNCHANGED notChan

\* Channel.f_disconnect as a function of the connection fields
\* <<f_downstream, f_upstream, f_emit>> and the obstruction state.
f_disconnect(cx, st, u) ==
    LET flow == cx[1][u]
    IN  IF flow # None
        THEN <<<<[cx[1] EXCEPT ![u] = None],
                 [cx[2] EXCEPT ![flow] = None],
                 [cx[3] EXCEPT ![u] = [to |-> None, meth |-> "f_discarding"]]>>,
               [st EXCEPT !.mon[flow] = @ \ {u}]>>
        ELSE <<<<cx[1], cx[2],
                 [cx[3] EXCEPT ![u] = [to |-> None, meth |-> "f_discarding"]]>>, st>>

\* Channel.f_connect(flow) and its override Mitre.f_connect(flow).
ChanConnect(u, flow) ==
    /\ u < flow
    /\ LET cx0 == <<f_downstream, f_upstream, f_emit>>
           emit == [to |-> flow, meth |-> ch_process[flow]]
       IN  IF f_type(u) = "mitre"
           THEN /\ f_downstream' = [f_downstream EXCEPT ![u] = flow]
                /\ f_emit' = [f_emit EXCEPT ![u] = emit]
                /\ f_upstream' = f_upstream
                /\ ChanStore(ChanState, "f_connect", u)
           ELSE LET dc == IF f_downstream[u] # None
                          THEN f_disconnect(cx0, ChanState, u)
                          ELSE <<cx0, ChanState>>
                IN  /\ f_downstream' = [dc[1][1] EXCEPT ![u] = flow]
                    /\ f_upstream' = [dc[1][2] EXCEPT ![flow] = u]
                    /\ f_emit' = [dc[1][3] EXCEPT ![u] = emit]
                    /\ ChanStore(f_watch(dc[2], flow, u), "f_connect", u)
    /\ chan_pair' = [chan_pair EXCEPT ![u] = flow]
    /\ UNCHANGED ch_process
    /\ UNCHANGED notChan

\* u.f_disconnect() called from outside the network.
ChanDisconnect(u) ==
    /\ LET dc == f_disconnect(<<f_downstream, f_upstream, f_emit>>, ChanState, u)
       IN  /\ f_downstream' = dc[1][1]
           /\ f_upstream' = dc[1][2]
           /\ f_emit' = dc[1][3]
           /\ ChanStore(dc[2], "f_disconnect", u)
    /\ chan_pair' = [chan_pair EXCEPT ![u] = None]
    /\ UNCHANGED ch_process
    /\ UNCHANGED notChan

\* Class attributes of Channel before any call.
ChanInit ==
    /\ f_downstream = [c \in Chan |-> None]
    /\ f_upstream = [c \in Chan |-> None]
    /\ f_emit = [c \in Chan |-> [to |-> None, meth |-> "pass"]]
    /\ ch_process = [c \in Chan |-> "process"]
    /\ f_obstructions = [c \in Chan |-> [isnil |-> TRUE, d |-> <<>>]]
    /\ f_monitors = [c \in Chan |-> {}]
    /\ mon_calls = [c \in Chan |-> [m \in Chan \cup Watchers |-> <<0, 0>>]]
    /\ chan_last = [op |-> "init", c |-> None]
    /\ chan_pair = [c \in Chan |-> None]

\* The channel network: channels connect and disconnect, and a channel
\* obstructs and clears itself (by = self, as KOutput and Collection do).
ChanNext ==
    \/ \E c \in Chan : ChanObstruct(c, c, "none")
    \/ \E c \in Chan : ChanClear(c, c)
    \/ \E u \in Chan : \E flow \in Chan : ChanConnect(u, flow)
    \/ \E u \in Chan : ChanDisconnect(u)

\* One channel (the last one) with external monitors and external keys:
\* any sequence of f_obstruct, f_clear, f_watch and f_ignore calls.
ObsNext ==
    \/ \E by \in {NChan} \cup ExtKeys : \E condition \in {"none", "inexorable"} :
          ChanObstruct(NChan, by, condition)
    \/ \E key \in {NChan} \cup ExtKeys : ChanClear(NChan, key)
    \/ \E w \in Watchers : ChanWatch(NChan, w)
    \/ \E w \in Watchers : ChanIgnore(NChan, w)

(***************************************************************************)
(* Channel termination: terminate, _f_terminated, interrupt.  Every        *)
(* channel is the only processor of a sector of its own.                   *)
(***************************************************************************)
\* The termination state threaded through the calls channels make.
TermState == [process |-> ch_process, emit |-> f_emit, mon |-> f_monitors,
              terminating |-> ch_terminating, terminated |-> ch_terminated,
              sector |-> ch_sector, exits |-> ch_exits, tasks |-> ch_tasks,
              log |-> <<>>]

\* Sector.exited(processor) of the sector controlling channel c.
ch_exited(t, c) ==
    [t EXCEPT !.tasks = IF t.exits[c] THEN @ ELSE Append(@, <<"reap", c>>),
              !.exits[c] = TRUE,
              !.log = Append(@, <<"exited", c>>)]

\* Processor.exit(): the channel signals its exit to its controller.
ch_exit(t, c) == ch_exited(t, c)

\* Processor.termination_completed(): terminated, no longer terminating.
termination_completed(t, c) ==
    [t EXCEPT !.terminated[c] = TRUE, !.terminating[c] = FALSE,
              !.log = Append(@, <<"terminated", c>>)]

RECURSIVE f_terminated(_, _)

\* _f_terminated leaving its downstream alone (C12's mutant).
f_terminated_alone(t, c) ==
    ch_exit(termination_completed(
                [t EXCEPT !.process[c] = "f_discarding",
                          !.emit[c] = [to |-> None, meth |-> "f_discarding"]], c), c)

\* Channel._f_terminated; the downstream's f_terminate(context) is its
\* _f_terminated.
f_terminated(t, c) ==
    LET t1 == termination_completed(
                  [t EXCEPT !.process[c] = "f_discarding",
                            !.emit[c] = [to |-> None, meth |-> "f_discarding"]], c)
        ds == f_downstream[c]
        t2 == IF ds # None
              THEN f_terminated([t1 EXCEPT !.mon[ds] = @ \ {c}], ds)
              ELSE t1
    IN  ch_exit(t2, c)

\* Assign the threaded termination state and note the call made on c.
TermStore(t, op, c) ==
    /\ ch_process' = t.process
    /\ f_emit' = t.emit
    /\ f_monitors' = t.mon
    /\ ch_terminating' = t.terminating
    /\ ch_terminated' = t.terminated
    /\ ch_sector' = t.sector
    /\ ch_exits' = t.exits
    /\ ch_tasks' = t.tasks
    /\ term_log' = t.log
    /\ chan_last' = [op |-> op, c |-> c]
    /\ UNCHANGED <<f_downstream, f_upstream, f_obstructions, mon_calls, chan_pair>>
    /\ UNCHANGED <<catVars, divVars, itVars, tfVars, schVars, spVars, pmVars, unVars, tcVars, ptVars, tpVars, kiVars, rcVars, secVars, koVars>>

\* Channel.terminate(by): returns False on a channel that is terminated or
\* terminating (Channel.interrupt never sets interrupted); otherwise
\* termination starts and _f_terminated is enqueued.
ChanTerminate(c) ==
    /\ ~ch_terminated[c] /\ ~ch_terminating[c]
    /\ TermStore([TermState EXCEPT !.terminating[c] = TRUE,
                                   !.tasks = Append(@, <<"_f_terminated", c>>)],
                 "terminate", c)

\* c.fault(exception): Unit.faulted interrupts the sector of c, which
\* interrupts c (Channel.interrupt), and signals the sector's exit to the
\* sector's own controller.
ChanFault(c) ==
    /\ ch_sector[c] = "functioning"
    /\ LET t1 == [TermState EXCEPT !.sector[c] = "interrupted",
                                   !.process[c] = "f_discarding",
                                   !.emit[c] = [to |-> None, meth |-> "f_discarding"]]
           ds == f_downstream[c]
           t2 == IF ds # None THEN f_terminated(t1, ds) ELSE t1
           t3 == IF ds # None /\ t2.sector[ds] = "functioning"
                 THEN ch_exited(t2, ds)
                 ELSE t2
       IN  TermStore(t3, "fault", c)

\* The context runs the task at the head of its queue: the _f_terminated of
\* a channel, or the reap of a channel's sector (Sector.reap and reaped).
ChanRun ==
    /\ ch_tasks # <<>>
    /\ LET task == Head(ch_tasks)
           c == task[2]
           t == [TermState EXCEPT !.tasks = Tail(@)]
       IN  IF task[1] = "_f_terminated"
           THEN TermStore(f_terminated(t, c), "_f_terminated", c)
           ELSE TermStore(
                    IF t.exits[c]
                    THEN [t EXCEPT !.exits[c] = FALSE,
                                   !.sector[c] = IF @ # "interrupted" THEN "terminated" ELSE @]
                    ELSE t,
                    "reap", c)

TermInit ==
    /\ ch_terminating = [c \in Chan |-> FALSE]
    /\ ch_terminated = [c \in Chan |-> FALSE]
    /\ ch_sector = [c \in Chan |-> "functioning"]
    /\ ch_exits = [c \in Chan |-> FALSE]
    /\ ch_tasks = <<>>
    /\ term_log = <<>>

\* Channels in sectors of their own are connected first; then they
\* terminate and fault, and the context runs its tasks.
TermNext ==
    \/ \E u \in Chan : \E flow \in Chan :
          chan_last.op \in {"init", "f_connect"} /\ ChanConnect(u, flow)
    \/ \E c \in Chan : ChanTerminate(c)
    \/ \E c \in Chan : ChanFault(c)
    \/ ChanRun


(***************************************************************************)
(* Processor, Sector and Unit                                              *)
(***************************************************************************)
Procs == 1..NProc
\* The Unit, controller of the root sector (processor 1).
Unit == NProc + 1

\* processor.__class__: processors 1 and 2 are Sectors, 3 is a System (the
\* Interface subclass), the others are Calls.
class_of(p) == IF p <= 2 THEN "Sector" ELSE IF p = 3 THEN "System" ELSE "Call"
Sectors == {p \in Procs : class_of(p) = "Sector"}

\* Processor.placement and its override Interface.placement; the sectors of
\* the model hold no processor under the Interface key, so Sector.placement
\* is the class.
placement(p) == IF class_of(p) = "System" THEN "Interface" ELSE class_of(p)

\* The state of the tree as one value, threaded through the methods that
\* call each other.
SecState == [actuated |-> p_actuated, terminated |-> p_terminated,
             terminating |-> p_terminating, interrupted |-> p_interrupted,
             controller |-> p_controller, exceptions |-> p_exceptions,
             processors |-> s_processors, exits |-> s_exits, eec |-> s_eec,
             scheduler |-> s_scheduler,
             tasks |-> ctx_tasks, faults |-> u_faults, uexits |-> u_exits]

\* Processor.functioning
functioning(st, p) ==
    st.actuated[p] /\ ~(st.terminated[p] \/ st.interrupted[p])

\* The processors held in the sets of sector.processors.
children(st, s) == UNION {st.processors[s][k] : k \in DOMAIN st.processors[s]}

\* self.processors[key].add(p) on the defaultdict(set).
sp_add(st, s, key, p) ==
    LET m == st.processors[s]
        old == IF key \in DOMAIN m THEN m[key] ELSE {}
    IN  [st EXCEPT !.processors[s] = With(m, key, old \cup {p})]

\* self.processors[key].discard(p) on the defaultdict(set): the key exists
\* afterwards.
sp_discard(st, s, key, p) ==
    LET m == st.processors[s]
        old == IF key \in DOMAIN m THEN m[key] ELSE {}
    IN  [st EXCEPT !.processors[s] = With(m, key, old \ {p})]

RECURSIVE exited(_, _, _), faulted(_, _), terminate(_, _), terminate_all(_, _),
          interrupt(_, _), interrupt_all(_, _), sp_reap(_, _, _)

\* Sector.exited(processor), and Unit.exited(processor) for the root.
exited(st, c, p) ==
    IF c = Unit
    THEN LET st1 == [st EXCEPT !.uexits = @ \cup {p}]
         IN  IF st1.exceptions[p] THEN faulted(st1, p) ELSE st1
    ELSE IF st.exits[c] = {}
         THEN [st EXCEPT !.exits[c] = {p}, !.tasks = Append(@, <<"reap", c>>)]
         ELSE [st EXCEPT !.exits[c] = @ \cup {p}]

\* Sector.interrupt leaving the children alone (C11's mutant).
interrupt_shallow(st, p) ==
    IF st.interrupted[p] THEN st ELSE [st EXCEPT !.interrupted[p] = TRUE]

\* Processor.interrupt, and Sector.interrupt for a sector.
interrupt(st, p) ==
    IF st.interrupted[p] THEN st
    ELSE LET st1 == [st EXCEPT !.interrupted[p] = TRUE]
         IN  IF class_of(p) = "Sector"
             THEN interrupt_all(
                      [st1 EXCEPT !.scheduler[p] =
                           IF @ = "none" THEN @ ELSE "interrupted"],
                      children(st1, p))
             ELSE st1

\* "for Class, sset in self.processors.items(): for x in sset: x.interrupt()"
interrupt_all(st, ps) ==
    IF ps = {} THEN st
    ELSE LET x == CHOOSE y \in ps : TRUE
         IN  interrupt_all(interrupt(st, x), ps \ {x})

\* Processor.terminate, and Sector.terminate for a sector.
terminate(st, p) ==
    IF ~functioning(st, p) \/ st.terminating[p] THEN st
    ELSE LET st1 == [st EXCEPT !.terminating[p] = TRUE]
         IN  IF class_of(p) # "Sector" THEN st1
             ELSE IF DOMAIN st1.processors[p] # {}
                  THEN terminate_all(st1, children(st1, p))
                  ELSE [exited(st1, st1.controller[p], p)
                            EXCEPT !.terminated[p] = TRUE, !.terminating[p] = FALSE]

\* "for Class, sset in self.processors.items(): for x in sset: x.terminate()"
terminate_all(st, ps) ==
    IF ps = {} THEN st
    ELSE LET x == CHOOSE y \in ps : TRUE
         IN  terminate_all(terminate(st, x), ps \ {x})

\* Resource.sector: the nearest Sector in the controller stack, or None.
sector(st, p) ==
    IF st.controller[p] \in Sectors THEN st.controller[p] ELSE None

\* Unit.faulted interrupting the faultor without signalling its exit (C8's
\* mutant).
faulted_silent(st, resource) ==
    LET faultor == IF sector(st, resource) = None THEN resource
                   ELSE sector(st, resource)
        st1 == [st EXCEPT !.faults = @ \cup {faultor}]
    IN  IF st1.interrupted[faultor] THEN st1 ELSE interrupt(st1, faultor)

\* Unit.faulted(resource)
faulted(st, resource) ==
    LET faultor == IF sector(st, resource) = None THEN resource
                   ELSE sector(st, resource)
        st1 == [st EXCEPT !.faults = @ \cup {faultor}]
    IN  IF st1.interrupted[faultor] THEN st1
        ELSE LET st2 == interrupt(st1, faultor)
             IN  IF ~st2.terminated[faultor]
                 THEN exited(st2, st2.controller[faultor], faultor)
                 ELSE st2

\* Processor.fault(exception)
fault(st, p) == faulted([st EXCEPT !.exceptions[p] = TRUE], p)

\* The loops of Sector.reap over the exit set: discard under x.__class__,
\* exit_event_emit(x), then delete the classes left empty.
sp_reap(st, s, exits) ==
    IF exits = {} THEN st
    ELSE LET x == CHOOSE y \in exits : \A z \in exits : y <= z
             st1 == sp_discard(st, s, class_of(x), x)
             st2 == IF x \in st1.eec[s]
                    THEN [st1 EXCEPT !.eec[s] = @ \ {x},
                                     !.tasks = Append(@, <<"cb", x>>)]
                    ELSE st1
             st3 == sp_reap(st2, s, exits \ {x})
         IN  IF class_of(x) \in DOMAIN st3.processors[s]
                /\ st3.processors[s][class_of(x)] = {}
             THEN [st3 EXCEPT !.processors[s] = Without(@, class_of(x))]
             ELSE st3

\* Sector.reaped
reaped(st, s) ==
    IF DOMAIN st.processors[s] = {} /\ ~st.interrupted[s]
    THEN LET st1 == [st EXCEPT !.terminated[s] = TRUE, !.terminating[s] = FALSE,
                               !.scheduler[s] =
                                   IF @ = "none" THEN @ ELSE "interrupted"]
         IN  IF st1.controller[s] # None
             THEN exited(st1, st1.controller[s], s)
             ELSE st1
    ELSE st

\* Sector.reap
reap(st, s) ==
    IF st.exits[s] = {} THEN st
    ELSE reaped(sp_reap([st EXCEPT !.exits[s] = {}], s, st.exits[s]), s)

\* Processor.actuate, Call.actuate (enqueues Call.execution) and
\* Sector.actuate of a sector constructed without processors.
actuate(st, p) ==
    [st EXCEPT !.actuated[p] = TRUE,
               !.tasks = IF class_of(p) = "Call" THEN Append(@, <<"exec", p>>) ELSE @]

\* Assign the threaded state.
SecStore(st) ==
    /\ p_actuated' = st.actuated
    /\ p_terminated' = st.terminated
    /\ p_terminating' = st.terminating
    /\ p_interrupted' = st.interrupted
    /\ p_controller' = st.controller
    /\ p_exceptions' = st.exceptions
    /\ s_processors' = st.processors
    /\ s_exits' = st.exits
    /\ s_eec' = st.eec
    /\ s_scheduler' = st.scheduler
    /\ ctx_tasks' = st.tasks
    /\ u_faults' = st.faults
    /\ u_exits' = st.uexits
    /\ UNCHANGED notSec

\* s.dispatch(p) of a processor that was not actuated yet; Interfaces and
\* sectors are dispatched in the root sector.
SecDispatch(s, p) ==
    /\ functioning(SecState, s)
    /\ ~p_actuated[p] /\ p_controller[p] = None
    /\ class_of(p) # "Call" => s = 1
    /\ LET st1 == [SecState EXCEPT !.controller[p] = s]
       IN  SecStore(actuate(sp_add(st1, s, placement(p), p), p))
    /\ UNCHANGED atexit_ran

\* s.process([p]) of a processor that was not actuated yet.
SecProcess(s, p) ==
    /\ functioning(SecState, s)
    /\ ~p_actuated[p] /\ p_controller[p] = None
    /\ class_of(p) # "Call" => s = 1
    /\ LET st1 == sp_add(SecState, s, class_of(p), p)
       IN  SecStore(actuate([st1 EXCEPT !.controller[p] = s], p))
    /\ UNCHANGED atexit_ran

\* p.relocate(ascent) of a Call: ascent.acquire(p), then eject(p) of the old
\* controller.
SecRelocate(p, ascent) ==
    /\ class_of(p) = "Call"
    /\ functioning(SecState, p) /\ functioning(SecState, ascent)
    /\ p_controller[p] \in Sectors \ {ascent}
    /\ LET st1 == sp_add([SecState EXCEPT !.controller[p] = ascent],
                         ascent, class_of(p), p)
       IN  SecStore(sp_discard(st1, p_controller[p], class_of(p), p))
    /\ UNCHANGED atexit_ran

\* s.scheduling(): the sector gets a Scheduler of its own.
SecScheduling(s) ==
    /\ functioning(SecState, s) /\ s_scheduler[s] = "none"
    /\ SecStore([SecState EXCEPT !.scheduler[s] = "functioning"])
    /\ UNCHANGED atexit_ran

\* s.terminate()
SecTerminate(s) ==
    /\ functioning(SecState, s) /\ ~p_terminating[s]
    /\ SecStore(terminate(SecState, s))
    /\ UNCHANGED atexit_ran

\* s.interrupt()
SecInterrupt(s) ==
    /\ functioning(SecState, s)
    /\ SecStore(interrupt(SecState, s))
    /\ UNCHANGED atexit_ran

\* A trapped task of the functioning sector or interface p raised:
\* p.fault(exc).
SecFault(p) ==
    /\ class_of(p) # "Call"
    /\ functioning(SecState, p)
    /\ SecStore(fault(SecState, p))
    /\ UNCHANGED atexit_ran

\* The interface p finishes: it sets terminated and signals its exit to its
\* controller, as Call.execution does.
SecExit(p) ==
    /\ class_of(p) = "System"
    /\ functioning(SecState, p)
    /\ SecStore(exited([SecState EXCEPT !.terminated[p] = TRUE], p_controller[p], p))
    /\ UNCHANGED atexit_ran

\* How p had exited when its atexit callback ran.
exit_kind(st, p) ==
    IF st.interrupted[p] /\ ~st.terminated[p] THEN "interrupted" ELSE "terminated"

\* p.atexit(callback), one callback per processor.
SecAtexit(p) ==
    /\ p_controller[p] \in Sectors
    /\ atexit_ran[p] = "unset"
    /\ Cardinality({q \in Procs : atexit_ran[q] # "unset"}) < MaxAtexit
    /\ IF p_terminated[p]
       THEN /\ atexit_ran' = [atexit_ran EXCEPT ![p] = exit_kind(SecState, p)]
            /\ SecStore(SecState)
       ELSE /\ atexit_ran' = [atexit_ran EXCEPT ![p] = "set"]
            /\ SecStore([SecState EXCEPT !.eec[p_controller[p]] = @ \cup {p}])

\* The context runs the task at the head of its queue: Sector.reap, an
\* atexit callback, or Call.execution whose callable returns or raises.
SecRun(raises) ==
    /\ ctx_tasks # <<>>
    /\ LET task == Head(ctx_tasks)
           st == [SecState EXCEPT !.tasks = Tail(@)]
           p == task[2]
       IN  IF task[1] = "reap"
           THEN /\ SecStore(reap(st, p))
                /\ UNCHANGED atexit_ran
           ELSE IF task[1] = "cb"
           THEN /\ SecStore(st)
                /\ atexit_ran' = [atexit_ran EXCEPT ![p] = exit_kind(st, p)]
           ELSE /\ IF ~functioning(st, p) \/ raises
                   THEN SecStore(fault(st, p))
                   ELSE SecStore(exited([st EXCEPT !.terminated[p] = TRUE],
                                        st.controller[p], p))
                /\ UNCHANGED atexit_ran

\* The root sector is actuated and placed in the unit; every other
\* processor is constructed and not dispatched yet.
SecInit ==
    /\ p_actuated = [p \in Procs |-> p = 1]
    /\ p_terminated = [p \in Procs |-> FALSE]
    /\ p_terminating = [p \in Procs |-> FALSE]
    /\ p_interrupted = [p \in Procs |-> FALSE]
    /\ p_controller = [p \in Procs |-> IF p = 1 THEN Unit ELSE None]
    /\ p_exceptions = [p \in Procs |-> FALSE]
    /\ s_processors = [s \in Sectors |-> <<>>]
    /\ s_exits = [s \in Sectors |-> {}]
    /\ s_eec = [s \in Sectors |-> {}]
    /\ s_scheduler = [s \in Sectors |-> "none"]
    /\ ctx_tasks = <<>>
    /\ u_faults = {}
    /\ u_exits = {}
    /\ atexit_ran = [p \in Procs |-> "unset"]

\* The tree without atexit callbacks.
SecTreeNext ==
    \/ \E s \in Sectors : \E p \in Procs : SecDispatch(s, p)
    \/ \E s \in Sectors : \E p \in Procs : SecProcess(s, p)
    \/ \E p \in Procs : \E s \in Sectors : SecRelocate(p, s)
    \/ \E s \in Sectors : SecScheduling(s)
    \/ \E s \in Sectors : SecTerminate(s)
    \/ \E s \in Sectors : SecInterrupt(s)
    \/ \E p \in Procs : SecFault(p)
    \/ \E p \in Procs : SecExit(p)
    \/ \E raises \in BOOLEAN : SecRun(raises)

SecNext ==
    \/ SecTreeNext
    \/ \E p \in Procs : SecAtexit(p)


(***************************************************************************)
(* KOutput                                                                 *)
(***************************************************************************)
\* KOutput.ko_limit
ko_limit == 16

\* The KOutput's state as one value, threaded through process, f_terminate
\* and k_transition.
KOState == [queue |-> ko_queue, resource |-> ko_resource,
            transferred |-> k_transferred, obstructed |-> ko_obstructed,
            terminating |-> ko_terminating, transit |-> ko_transit,
            exits |-> ko_exits, acquired |-> ko_acquired]

\* Processor.termination_started: the processor is terminating.
termination_started(k) == [k EXCEPT !.terminating = TRUE]

\* Processor.exit: the controller is notified of the exit.
exit(k) == [k EXCEPT !.exits = @ + 1]

\* KOutput.f_empty
ko_f_empty(k) ==
    k.transit # "none" /\ Len(k.queue) = 0 /\ k.resource = None

\* KOutput.k_transition
ko_transition(k) ==
    IF k.queue # <<>>
    THEN [k EXCEPT !.queue = Tail(@), !.resource = Head(k.queue),
                   !.acquired = Append(@, Head(k.queue)), !.transferred = 0]
    ELSE [k EXCEPT !.transferred = -1, !.obstructed = FALSE,
                   !.transit = IF k.terminating THEN "terminated" ELSE @]

KOStore(k) ==
    /\ ko_queue' = k.queue
    /\ ko_resource' = k.resource
    /\ k_transferred' = k.transferred
    /\ ko_obstructed' = k.obstructed
    /\ ko_terminating' = k.terminating
    /\ ko_transit' = k.transit
    /\ ko_exits' = k.exits
    /\ ko_acquired' = k.acquired
    /\ UNCHANGED notKO

\* A call of the KOutput's process attribute with n new entries:
\* KOutput.process unless the attribute was rebound to f_discarding.
KOProcess(n) ==
    /\ ko_enqueued + n <= MaxEntries
    /\ ko_enqueued' = ko_enqueued + n
    /\ IF ko_process = "process"
       THEN LET k == [KOState EXCEPT !.queue =
                         @ \o [i \in 1..n |-> ko_enqueued + i]]
            IN  IF k.transferred = -1
                THEN KOStore(ko_transition(k))
                ELSE IF Len(k.queue) > ko_limit
                     THEN KOStore([k EXCEPT !.obstructed = TRUE])
                     ELSE KOStore(k)
       ELSE KOStore(KOState)
    /\ UNCHANGED ko_process

\* The kernel finished the transfer in flight and the I/O loop calls
\* k_transition of the linked KOutput.
KOTransferred ==
    /\ ko_resource # None /\ ko_transit # "none"
    /\ KOStore(ko_transition([KOState EXCEPT !.resource = None]))
    /\ UNCHANGED <<ko_process, ko_enqueued>>

\* f_terminate terminating the transit whether or not the KOutput is empty
\* (C18's mutant).
ko_f_terminate_now(k) ==
    IF k.terminating THEN k
    ELSE exit([termination_started(k) EXCEPT !.transit = "terminated"])

\* KOutput.f_terminate(context)
ko_f_terminate(k) ==
    IF k.terminating THEN k
    ELSE LET k1 == termination_started(k)
         IN  IF ko_f_empty(k1)
             THEN exit([k1 EXCEPT !.transit = "terminated"])
             ELSE k1

\* KOutput.f_terminate(context), also KOutput.terminate(by).
KOTerminate ==
    /\ KOStore(ko_f_terminate(KOState))
    /\ UNCHANGED <<ko_process, ko_enqueued>>

\* The I/O loop saw the termination of the transit: Kernel.f_terminated,
\* with "not self.terminated" true as nothing of KOutput sets terminated.
KOTransitTerminated ==
    /\ ko_transit = "terminated"
    /\ KOStore(exit([KOState EXCEPT !.transit = "none"]))
    /\ UNCHANGED <<ko_process, ko_enqueued>>

KOInit ==
    /\ ko_queue = <<>>
    /\ ko_resource = None
    /\ k_transferred = -1
    /\ ko_obstructed = FALSE
    /\ ko_terminating = FALSE
    /\ ko_process = "process"
    /\ ko_transit = "open"
    /\ ko_exits = 0
    /\ ko_acquired = <<>>
    /\ ko_enqueued = 0

\* process is called with small batches, or with one batch larger than
\* ko_limit.
KONext ==
    \/ \E n \in (1..MaxBatch) \cup {ko_limit + 2} : KOProcess(n)
    \/ KOTransferred
    \/ KOTerminate
    \/ KOTransitTerminated

(***************************************************************************)
(* Specifications: every subsystem starts as constructed; one subsystem    *)
(* runs.                                                                   *)
(***************************************************************************)
Init == CatInit /\ DivInit /\ ItInit /\ TfInit /\ SchInit /\ ChanInit /\ TermInit /\ SpInit /\ PmInit /\ UnInit /\ TcInit /\ PtInit /\ TpInit /\ KiInit /\ RcInit /\ SecInit /\ KOInit

SpecCat == Init /\ [][CatNext]_vars
SpecOverflow == Init /\ [][OverflowNext]_vars
SpecCatTerm == Init /\ [][CatTermNext]_vars
SpecDiv == Init /\ [][DivNext]_vars
SpecDivObs == Init /\ [][DivObsNext]_vars
SpecTf == Init /\ [][TfNext]_vars
SpecRc == Init /\ [][RcNext]_vars /\ WF_vars(RcElapse) /\ WF_vars(RcReap)
              /\ WF_vars(\E next_delay \in Delays : RcOccur(next_delay))
SpecKi == Init /\ [][KiNext]_vars /\ WF_vars(KiTransfer)
SpecTp == Init /\ [][TpNext]_vars
SpecPorts == Init /\ [][PtNext]_vars
SpecTc == Init /\ [][TcNext]_vars
SpecUnit == Init /\ [][UnNext]_vars /\ WF_vars(UnRunTerminate)
SpecPm == Init /\ [][PmNext]_vars
SpecSp == Init /\ [][SpNext]_vars /\ \A pid \in 1..NPids : WF_vars(SpDeliver(pid))
\* Time passes and the context calls a registered callback whose time has
\* come.
SpecSch == Init /\ [][SchNext]_vars /\ WF_vars(SchTick) /\ WF_vars(SchTransition)
\* The context runs every task it was given, the Iteration is actuated, and
\* whoever obstructs the Iteration clears it again.
SpecIt == Init /\ [][ItNext]_vars /\ WF_vars(ItRun) /\ WF_vars(ItActuate)
              /\ \A key \in ItKeys : WF_vars(ItClear(key))
SpecChan == Init /\ [][ChanNext]_vars
SpecObs == Init /\ [][ObsNext]_vars
SpecTerm == Init /\ [][TermNext]_vars
SpecSec == Init /\ [][SecNext]_vars
SpecTree == Init /\ [][SecTreeNext]_vars
SpecKO == Init /\ [][KONext]_vars

(***************************************************************************)
(* Claims                                                                  *)
(***************************************************************************)
\* Positions of the downstream's event list.
EmittedAt == 1..Len(emitted)

\* C1: the downstream's event list holds initiate(Li) before terminate(Li)
\* and terminate(Li) before initiate(Li+1), each at most once: the layers
\* appear in reservation order and are never interleaved, for every order
\* in which the upstream flows connect, send and terminate.
C1_ReservationOrder ==
    \A i \in EmittedAt :
        LET e == emitted[i]
        IN  /\ e[1] = "terminate" =>
                \E j \in 1..(i - 1) : emitted[j] = <<"initiate", e[2]>>
            /\ (e[1] = "initiate" /\ e[2] > 1) =>
                \E j \in 1..(i - 1) : emitted[j] = <<"terminate", e[2] - 1>>
            /\ e[1] \in {"initiate", "terminate"} =>
                \A j \in EmittedAt : emitted[j] = e => j = i

\* C2: every transfer(Li, payload) the downstream receives lies after
\* initiate(Li) and before terminate(Li), and the payloads of Li arrive in
\* the order Li's upstream sent them (payloads are numbered in send order).
C2_TransferOrder ==
    \A i \in EmittedAt :
        LET e == emitted[i]
        IN  e[1] = "transfer" =>
                /\ \E j \in 1..(i - 1) : emitted[j] = <<"initiate", e[2]>>
                /\ \A j \in 1..(i - 1) : emitted[j] # <<"terminate", e[2]>>
                /\ \A j \in 1..(i - 1) :
                     (emitted[j][1] = "transfer" /\ emitted[j][2] = e[2])
                        => emitted[j][3] < e[3]

\* C3: in every f_obstruct or f_clear call on a channel, each monitor that
\* is registered gets exactly one onObstruct call when the channel goes from
\* no obstructions to at least one, exactly one onClear call when the last
\* obstruction is removed, and no call otherwise (a further f_obstruct, an
\* f_clear of a key that is not registered or is not the last one).
C3_MonitorsFireOnce ==
    [][chan_last'.op \in {"f_obstruct", "f_clear"} =>
          LET c == chan_last'.c
              was == ~f_obstructions[c].isnil
              now == ~f_obstructions'[c].isnil
          IN  \A m \in f_monitors[c] :
                  mon_calls'[c][m] = <<IF ~was /\ now THEN 1 ELSE 0,
                                      IF was /\ ~now THEN 1 ELSE 0>>]_vars

\* C3's case: the f_clear that removed the last obstruction of a channel
\* with every external monitor registered called each onClear once.
C3_Witness ==
    /\ chan_last = [op |-> "f_clear", c |-> NChan]
    /\ f_obstructions[NChan].isnil
    /\ f_monitors[NChan] = Watchers
    /\ \A w \in Watchers : mon_calls[NChan][w] = <<0, 1>>

\* C4: for every pair (U, D) connected by U.f_connect(D) and not yet
\* disconnected, U.f_downstream is D, D.f_upstream() is U and U.f_emit is
\* D.process.
C4_ConnectedPair ==
    \A u \in Chan :
        chan_pair[u] # None =>
            /\ f_downstream[u] = chan_pair[u]
            /\ f_upstream[chan_pair[u]] = u
            /\ f_emit[u] = [to |-> chan_pair[u], meth |-> ch_process[chan_pair[u]]]

\* C5: an atexit callback never runs for a processor that exited by
\* interruption (interrupted and never terminated).
C5_AtexitOnlyAfterTermination ==
    \A p \in Procs : atexit_ran[p] # "interrupted"

\* C6: every functioning processor with a controlling sector is held by that
\* sector in the set stored under the processor's placement key.
C6_PlacedUnderPlacement ==
    \A p \in Procs :
        (functioning(SecState, p) /\ p_controller[p] \in Sectors) =>
            /\ placement(p) \in DOMAIN s_processors[p_controller[p]]
            /\ p \in s_processors[p_controller[p]][placement(p)]

\* The controller c of p was notified of p's exit in this step.
ExitNotified(c, p) ==
    IF c = Unit THEN p \in u_exits' \ u_exits ELSE p \in s_exits'[c] \ s_exits[c]

\* C7: a reap of a sector that is not interrupted and whose remaining
\* children have all reported their exits empties the children map, sets
\* the sector terminated and notifies its controller; a reap of an
\* interrupted sector leaves it not terminated.
C7_ReapCompletes ==
    [][\A s \in Sectors :
          (s_exits[s] # {} /\ s_exits'[s] = {}) =>
              /\ (~p_interrupted[s] /\ children(SecState, s) \subseteq s_exits[s]) =>
                    /\ DOMAIN s_processors'[s] = {}
                    /\ p_terminated'[s]
                    /\ ExitNotified(p_controller[s], s)
              /\ p_interrupted[s] => p_terminated'[s] = p_terminated[s]]_vars

C9_DiscardAfterTermination ==
    ko_exits > 0 => ko_process = "f_discarding"

\* The processors held by s and by the sectors s holds.
Descendants(s) ==
    LET c == children(SecState, s)
    IN  c \cup UNION {children(SecState, x) : x \in c \cap Sectors}

C10_TerminateEmptySector ==
    [][\A s \in Sectors :
          (functioning(SecState, s) /\ ~p_terminating[s] /\ p_terminating'[s]) =>
              /\ children(SecState, s) # {}
              /\ \A x \in children(SecState, s) :
                    functioning(SecState, x) => (p_terminating'[x] \/ p_terminated'[x])]_vars

\* The channels of the chain that starts at c, following f_downstream.
RECURSIVE DownChain(_)
DownChain(c) ==
    IF f_downstream[c] = None THEN {c} ELSE {c} \cup DownChain(f_downstream[c])

\* C12: when the context runs the _f_terminated task that terminate()
\* enqueued for a channel U, U and every channel down its chain are
\* terminated when the task returns, each of them has signalled its exit to
\* its controller, and U was terminated before any channel downstream of it.
C12_TerminationPropagates ==
    [][chan_last'.op = "_f_terminated" =>
          LET u == chan_last'.c
              at(e) == CHOOSE i \in 1..Len(term_log') : term_log'[i] = e
              logged(e) == \E i \in 1..Len(term_log') : term_log'[i] = e
          IN  \A d \in DownChain(u) :
                  /\ ch_terminated'[d] /\ ~ch_terminating'[d]
                  /\ ch_process'[d] = "f_discarding"
                  /\ logged(<<"terminated", d>>)
                  /\ logged(<<"exited", d>>) /\ ch_exits'[d]
                  /\ d # u => at(<<"terminated", u>>) < at(<<"terminated", d>>)]_vars

\* A task terminated the chain 1 -> 2 -> 3 from its head.
C12_Witness ==
    /\ chan_last = [op |-> "_f_terminated", c |-> 1]
    /\ f_downstream[1] = 2 /\ f_downstream[2] = 3
    /\ \A c \in Chan : ch_terminated[c] /\ ch_exits[c]
    /\ term_log = << <<"terminated", 1>>, <<"terminated", 2>>, <<"terminated", 3>>,
                     <<"exited", 3>>, <<"exited", 2>>, <<"exited", 1>> >>

\* C13: when a channel U faults and its sector interrupts it, the channel D
\* connected downstream of U, in a sector of its own, is not interrupted
\* and neither is its sector; D is terminated; the exit of D is signalled
\* to D's sector if and only if that sector is functioning.
C13_DownstreamOfFault ==
    [][(chan_last'.op = "fault" /\ f_downstream[chan_last'.c] # None) =>
          LET d == f_downstream[chan_last'.c]
          IN  /\ ch_sector'[d] = ch_sector[d]
              /\ ch_terminated'[d]
              /\ (\E i \in 1..Len(term_log') : term_log'[i] = <<"exited", d>>)
                     <=> ch_sector[d] = "functioning"]_vars

C15_DivisionDelivery ==
    \A l \in DivLayers :
        /\ div_flows[l] \in {"none", "terminate"} =>
               /\ div_queues[l].q = div_arrived[l]
               /\ div_delivered[l] = <<>>
        /\ div_flows[l] = "flow" =>
               /\ div_delivered[l] = div_arrived[l]
               /\ ~div_queues[l].has /\ div_queues[l].q = <<>>
        /\ div_fterm[l] > 0 => div_delivered[l] = div_arrived[l]
        /\ div_drained[l] <= Len(div_delivered[l])

\* The consumer of layer 1 received two payloads drained from the queue and
\* then one forwarded directly.
C15_Witness ==
    /\ div_flows[1] = "flow"
    /\ div_drained[1] = 2
    /\ div_delivered[1] = <<1, 2, 3>>
    /\ ~div_queues[1].has

\* C16: whatever the obstruct and clear calls, the downstream of an
\* Iteration has received exactly the items taken from the iterator, each
\* once and in iterator order; a clear that removes the last obstruction
\* enqueues it_transition; an actuated Iteration that is neither obstructed
\* nor waiting for a task is terminated, and the Iteration eventually
\* terminates with every item emitted.
C16_IterationEmitsAll ==
    /\ [](it_emitted = [k \in 1..it_pos |-> k])
    /\ []((it_actuated /\ it_obs = {} /\ it_tasks = <<>>) =>
              (it_terminated /\ it_pos = MaxItems))
    /\ [][(it_obs # {} /\ it_obs' = {}) =>
              it_tasks' = Append(it_tasks, "it_transition")]_vars
    /\ <>[](it_terminated /\ it_emitted = [k \in 1..MaxItems |-> k])

\* The Iteration terminated with every item emitted after it was
\* obstructed three times.
C16_Witness ==
    /\ it_terminated
    /\ it_nobs = 3
    /\ it_emitted = <<1, 2, 3>>

\* C17: a KOutput whose queue holds more than ko_limit entries is
\* obstructed by itself, and the obstruction is removed only by a step that
\* leaves the queue empty.
C17_OverflowObstructed ==
    /\ [](Len(ko_queue) > ko_limit => ko_obstructed)
    /\ [][(ko_obstructed /\ ~ko_obstructed') => ko_queue' = <<>>]_vars

\* C18: the transit of a KOutput is terminated only by a step that leaves
\* the KOutput terminating with an empty queue and no transfer in flight,
\* every entry it was sent having been handed to the kernel before; the
\* entries are handed to the kernel in the order they were sent, the next
\* one when the transfer in flight completed; f_terminate on a terminating
\* KOutput changes nothing.
C18_DrainBeforeTransitTermination ==
    /\ [](ko_acquired \o ko_queue = [i \in 1..ko_enqueued |-> i])
    /\ [](ko_terminating => ko_f_terminate(KOState) = KOState)
    /\ [][(ko_transit = "open" /\ ko_transit' = "terminated") =>
              /\ ko_terminating'
              /\ ko_queue' = <<>> /\ ko_resource' = None
              /\ ko_acquired' = [i \in 1..ko_enqueued |-> i]]_vars
    /\ [][ko_acquired' # ko_acquired =>
              /\ ko_acquired' = Append(ko_acquired, ko_resource')
              /\ ko_resource = None \/ k_transferred = 0]_vars

\* f_terminate found the KOutput busy; the transit was terminated by
\* k_transition after the three entries had been handed to the kernel, and
\* the exit is not signalled yet.
C18_Witness ==
    /\ ko_terminating /\ ko_transit = "terminated"
    /\ ko_exits = 0
    /\ ko_acquired = <<1, 2, 3>>
    /\ ko_queue = <<>> /\ ko_resource = None

\* C19: a process pass of the output side (polarity -1) that, after the
\* opposite side's pass, still finds a layer holding transfers for the
\* opposite side while the input side is terminating raises the transport
\* stack deadlock error.
C19_DeadlockRaised ==
    [][(tf_last'.side = -1 /\ tf_last'.x /\ tf_terminating'[1]) => tf_raised']_vars

\* C20: while tasks are pending the transition is registered with the
\* context for the earliest pending deadline and no fault is reported; the
\* tasks are executed in the order of their deadlines, whatever the order
\* of the defer calls; every deferred task is eventually executed.
C20_DeadlineOrder ==
    /\ [](~sch_fault)
    /\ [](sch_schedule # {} => sch_registered = sch_earliest(sch_schedule))
    /\ [](\A i, j \in 1..Len(sch_executed) :
              i < j => sch_executed[i][1] <= sch_executed[j][1])
    /\ [](\A e \in sch_schedule : \A i \in 1..Len(sch_executed) :
              sch_executed[i][1] <= e[1] /\ sch_executed[i][2] # e[2])
    /\ \A task \in 1..MaxTasks :
          (\E e \in sch_schedule : e[2] = task)
              ~> (\E i \in 1..Len(sch_executed) : sch_executed[i][2] = task)

\* Three tasks deferred by 3, 1 and 2 units were executed second, third,
\* first.
C20_Witness ==
    sch_executed = << <<2, 2>>, <<3, 3>>, <<4, 1>> >>

(***************************************************************************)
(* Subprocess                                                              *)
(***************************************************************************)
\* C21: a Subprocess signals completion to its controller only in a state
\* where every pid of the set has a recorded exit status and the Subprocess
\* is not interrupted; an sp_exit(pid) for a pid of the set records the
\* status, also after an interrupt; an sp_exit for a pid outside the set is
\* rejected and leaves the recorded statuses unchanged; the pids with a
\* recorded status are always pids of the set.
C21_CompletionSignalled ==
    [][sp_exits' > sp_exits => (SpPids \subseteq sp_status' /\ ~sp_interrupted')]_vars
C21_ExitRecorded ==
    [][\A pid \in SpPids : SpDeliver(pid) => pid \in sp_status']_vars
C21_OutsideRejected ==
    [][SpExitOutside => (sp_raised' = "RuntimeError" /\ sp_status' = sp_status)]_vars
C21_StatusOfSet == sp_status \subseteq SpPids
C21_SubprocessExit ==
    /\ C21_CompletionSignalled
    /\ C21_ExitRecorded
    /\ C21_OutsideRejected
    /\ []C21_StatusOfSet
\* The same statement about dispatch.Subprocess alone.
C21_DispatchOnly ==
    /\ [][sp_class' = "dispatch" => (sp_exits' > sp_exits =>
            (SpPids \subseteq sp_status' /\ ~sp_interrupted'))]_vars
    /\ [][sp_class' = "dispatch" => \A pid \in SpPids : SpDeliver(pid) => pid \in sp_status']_vars
    /\ [][sp_class' = "dispatch" => (SpExitOutside =>
            (sp_raised' = "RuntimeError" /\ sp_status' = sp_status))]_vars
    /\ [](sp_class = "dispatch" => sp_status \subseteq SpPids)

\* C22: once actuate has subscribed the exit events, no pid of the set is
\* left exited and unobserved: the exit of a child that was gone before the
\* subscription has been synthesized by actuate; and for every pid whose
\* child has exited, eventually its exit status is recorded or the
\* Subprocess has been interrupted.
C22_NoneUnobserved ==
    sp_subscribed => \A pid \in SpPids : sp_kernel[pid] # "gone"
C23_Restart ==
    [][\A pid \in 1..MaxForks : PmXactExit(pid) =>
          LET f == pm_procs[pid]
          IN IF pm_terminating
             THEN /\ pm_procs' = pm_procs
                  /\ pm_subprocess' = pm_subprocess
                  /\ pm_last_exit' = pm_last_exit
             ELSE /\ pm_last_exit'[f] = pid
                  /\ Len(pm_procs') = Len(pm_procs) + 1
                  /\ pm_procs'[Len(pm_procs')] = f
                  /\ pm_subprocess'[f] = Len(pm_procs')
                  /\ pm_subprocess'[f] \in pm_xacts'
                  /\ \A g \in ForkIds \ {f} :
                        /\ pm_subprocess'[g] = pm_subprocess[g]
                        /\ pm_last_exit'[g] = pm_last_exit[g]
                  /\ pm_xacts' \ {pm_subprocess'[f]} = pm_xacts \ {pid}]_vars
C23_NoForkWhenTerminating ==
    [][pm_terminating => pm_procs' = pm_procs]_vars
C23_ForkSupervisor == C23_Restart /\ C23_NoForkWhenTerminating
\* A worker was restarted under its fork id while the other worker is the
\* one of actuate, and later the exit of a child reached a terminating manager.
C23_Witness ==
    /\ pm_terminating
    /\ \E f \in ForkIds : pm_last_exit[f] # None /\ pm_subprocess[f] > Concurrency
    /\ \E g \in ForkIds : pm_last_exit[g] = None /\ pm_subprocess[g] = g /\ g \notin pm_xacts

(***************************************************************************)
(* Unit                                                                    *)
(***************************************************************************)
\* C24: Unit.place(obj, *address) is atomic.  After a call that succeeded the
\* index maps the address to obj and the hierarchy holds the nested path of
\* the address, so that listdir of the parent address lists the last
\* component; after a call that failed, the index and the hierarchy are what
\* they were before the call.
C24_PlaceSucceeded ==
    [][\A obj \in UnObjs, destination \in Addresses :
          (UnPlace(obj, destination) /\ un_raised' = "none") =>
             LET parent == SubSeq(destination, 1, Len(destination) - 1)
             IN /\ destination \in DOMAIN un_index'
                /\ un_index'[destination] = obj
                /\ destination \in un_hierarchy'
                /\ listdir(un_hierarchy', parent).found
                /\ destination[Len(destination)] \in listdir(un_hierarchy', parent).names]_vars
C24_PlaceFailed ==
    [][\A obj \in UnObjs, destination \in Addresses :
          (UnPlace(obj, destination) /\ un_raised' # "none") =>
             /\ un_index' = un_index
             /\ un_hierarchy' = un_hierarchy]_vars
C24_PlaceAtomic == C24_PlaceSucceeded /\ C24_PlaceFailed

\* The exit of a processor has left the unit's bin/ directory empty.
BinEmptied ==
    /\ \E processor \in UnProcs : \E order \in Orders(un_exit) : UnExited(processor, order)
    /\ keys(un_hierarchy, <<"bin">>) # {}
    /\ <<"bin">> \in un_hierarchy'
    /\ keys(un_hierarchy', <<"bin">>) = {}

\* C25: when the exit of a processor leaves bin/ empty, the unit runs each of
\* its registered at-exit callbacks, and if none remains registered after
\* that it terminates the process: the terminate task is enqueued and, once
\* run, terminates the process at most once with the result code 0; the
\* termination is only started by an exit that leaves bin/ empty.
C25_CallbacksRun == [][BinEmptied => un_ran' = un_exit]_vars
C25_TerminateStarted == [][(BinEmptied /\ un_exit' = {}) => un_tasks' = un_tasks + 1]_vars
C25_OnlyWhenEmpty == [][un_tasks' > un_tasks => BinEmptied]_vars
C25_AtMostOnce ==
    /\ Len(un_process_exits) <= 1
    /\ \A i \in DOMAIN un_process_exits : un_process_exits[i] = 0
C25_UnitExit ==
    /\ C25_CallbacksRun
    /\ C25_TerminateStarted
    /\ C25_OnlyWhenEmpty
    /\ []C25_AtMostOnce
    /\ (un_tasks > 0) ~> un_terminated

(***************************************************************************)
(* terminate() refused                                                     *)
(***************************************************************************)
\* C26: terminate() called on a processor that is not functioning (not
\* actuated, terminated or interrupted) or that is already terminating
\* returns false and changes nothing of the processor's state; for
\* Processor.terminate, Sector.terminate and Channel.terminate.
C26_TerminateRefused ==
    [][(TcTerminate /\ (~tc_functioning(TcState) \/ tc_terminating)) =>
          /\ tc_return' = "False"
          /\ UNCHANGED <<tc_actuated, tc_terminating, tc_terminated, tc_interrupted,
                         tc_processors, tc_signalled, tc_tasks, tc_discarding, tc_exits>>]_vars
\* The same statement about Processor.terminate and Sector.terminate alone.
C26_ProcessorAndSector ==
    [][(TcTerminate /\ tc_class # "Channel" /\ (~tc_functioning(TcState) \/ tc_terminating)) =>
          /\ tc_return' = "False"
          /\ UNCHANGED <<tc_actuated, tc_terminating, tc_terminated, tc_interrupted,
                         tc_processors, tc_signalled, tc_tasks, tc_discarding, tc_exits>>]_vars

(***************************************************************************)
(* Obstructions                                                            *)
(***************************************************************************)
\* C27: an obstruction registered with the condition Inexorable is
\* permanent: no f_clear call removes it, and the channel that holds it is
\* still obstructed after the call.
C27_InexorablePermanent ==
    [][chan_last'.op = "f_clear" =>
          LET c == chan_last'.c
          IN  \A k \in DOMAIN f_obstructions[c].d :
                  f_obstructions[c].d[k] = "inexorable" =>
                      /\ ~f_obstructions'[c].isnil
                      /\ k \in DOMAIN f_obstructions'[c].d
                      /\ f_obstructions'[c].d[k] = "inexorable"]_vars

\* C28: on a channel without obstructions, f_obstruct(k) followed by
\* f_clear(k) leaves the channel not obstructed, with f_obstructions None
\* again, and that f_clear returns True; f_obstructions is never an empty
\* map between two calls.
C28_NeverEmptyMap ==
    \A c \in Chan : ~f_obstructions[c].isnil => DOMAIN f_obstructions[c].d # {}
C28_ObstructThenClear ==
    /\ []C28_NeverEmptyMap
    /\ [][\A k \in {NChan} \cup ExtKeys :
             (/\ chan_last = [op |-> "f_obstruct", c |-> NChan]
              /\ DOMAIN f_obstructions[NChan].d = {k}
              /\ ChanClear(NChan, k)) =>
                 /\ f_clear_result(ChanState, NChan, k)
                 /\ f_obstructions'[NChan].isnil
                 /\ ~f_obstructed([ChanState EXCEPT !.obs = f_obstructions'], NChan)]_vars
\* The f_clear of the only obstruction, on a channel watched by one monitor,
\* has called that monitor's onClear and left the channel with no obstruction.
C28_Witness ==
    /\ chan_last = [op |-> "f_clear", c |-> NChan]
    /\ f_obstructions[NChan].isnil
    /\ Cardinality(f_monitors[NChan]) = 1
    /\ \A w \in f_monitors[NChan] : mon_calls[NChan][w] = <<0, 1>>

(***************************************************************************)
(* Ports                                                                   *)
(***************************************************************************)
\* C29: after Ports.replace(slot, E...) the endpoints held by the slot are
\* exactly E: the endpoints of E that were not bound are bound to an open
\* descriptor, and every endpoint that was bound and is not in E is removed
\* from the slot and its descriptor is closed.
C29_ReplaceExact ==
    [][\A E \in SUBSET Endpoints : PtReplace(E) =>
          /\ pt_held([sets |-> pt_sets']) = E
          /\ \A ep \in E : pt_sets'[ep] \in pt_open'
          /\ \A ep \in E \cap pt_held(PtState) : pt_sets'[ep] = pt_sets[ep]
          /\ \A ep \in pt_held(PtState) \ E : pt_sets[ep] \notin pt_open']_vars
\* The part of the statement about the endpoints of E: they are held and
\* open after the call.
C29_NewBound ==
    [][\A E \in SUBSET Endpoints : PtReplace(E) =>
          /\ E \subseteq pt_held([sets |-> pt_sets'])
          /\ \A ep \in E \ pt_held(PtState) : pt_sets'[ep] \in pt_open']_vars

(***************************************************************************)
(* Transports: popping the terminated layers                               *)
(***************************************************************************)
\* C30: the operation lists of the two sides always have the length of the
\* shared stack, the input side's in the order of the stack and the output
\* side's reversed; a pass that pops fully terminated layers pops all of
\* them without raising, one layer or several, and terminates the
\* downstream; and when a pass leaves the stack empty, every side that is
\* terminating completes its termination.
C30_OperationsMatch ==
    /\ tp_ops[1] = tp_stack
    /\ tp_ops[-1] = Reverse(tp_stack)
C30_PopCompletes ==
    [][Len(tp_stack') < Len(tp_stack) =>
          /\ tp_raised' = "none"
          /\ tp_dsterm'[1] > tp_dsterm[1]
          /\ (tp_stack' # <<>> => ~layer_terminated(TpState, tp_stack'[Len(tp_stack')]))
          /\ (tp_stack' = <<>> => \A side \in Sides : tp_terminating[side] => tp_terminated'[side])]_vars
C30_LayersPopped == []C30_OperationsMatch /\ C30_PopCompletes
\* The same statement about the pop of the only layer of a stack whose
\* input side is still connected to its downstream.
C30_OnlyLayer ==
    [][(Len(tp_stack') < Len(tp_stack) /\ Len(tp_stack) = 1 /\ tp_down[1]) =>
          /\ tp_raised' = "none"
          /\ tp_dsterm'[1] > tp_dsterm[1]
          /\ \A side \in Sides : tp_terminating[side] => tp_terminated'[side]]_vars


\* C31: a connect(layer, flow) that finds the terminate note of a layer
\* closed before its consumer connected calls the flow with every payload
\* that arrived for the layer, in arrival order, and then with f_terminate;
\* a terminate(layer) that finds a connected flow removes the layer's entry,
\* removes the Division's pair from the flow's monitors and calls the
\* flow's f_terminate; until the connect the payloads of a closed layer stay
\* queued.
C31_TerminateBeforeConnect ==
    [][\A l \in DivLayers :
          /\ (div_flows[l] = "terminate" /\ div_flows'[l] = "flow") =>
                 /\ div_calls[l] = <<>>
                 /\ div_calls'[l] = div_arrived[l] \o <<0>>
                 /\ div_delivered'[l] = div_arrived[l]
          /\ (div_flows[l] = "flow" /\ div_flows'[l] = "unset") =>
                 /\ div_calls'[l] = Append(div_calls[l], 0)
                 /\ ~div_watched'[l]
          /\ (div_flows[l] = "none" /\ div_flows'[l] = "terminate") =>
                 div_queues'[l].q = div_arrived[l]]_vars

\* Layer 1 was closed with two payloads queued and then connected: its
\* consumer received both payloads and then f_terminate.
C31_Witness ==
    /\ div_flows[1] = "flow"
    /\ div_drained[1] = 2
    /\ div_calls[1] = <<1, 2, 0>>

\* Layer 1 was closed while its consumer was connected.
C31_WitnessConnected ==
    /\ div_flows[1] = "unset"
    /\ div_calls[1] = <<1, 0>>
    /\ div_drained[1] = 0

\* The events accumulated or already emitted, in the order the downstream
\* gets them.
CatStream == emitted \o cat_events

\* C32: also when the upstream of the next layer sends or terminates
\* between cat_transition and the cat_drain task it enqueued, every transfer
\* and terminate of a layer lies after the layer's initiate, a layer's
\* terminate is preceded by a transfer for every payload its upstream sent,
\* and a cat_drain task at the head of the task queue finds the reservation
\* queue non-empty.
C32_DrainWindow ==
    (~cat_fault /\ cat_f_emit = "downstream") =>
        /\ \A i \in 1..Len(CatStream) :
               LET e == CatStream[i]
               IN  /\ e[1] \in {"transfer", "terminate"} =>
                          \E j \in 1..(i - 1) : CatStream[j] = <<"initiate", e[2]>>
                   /\ e[1] = "terminate" =>
                          \A p \in 1..up_sent[e[2]] :
                              \E j \in 1..(i - 1) : CatStream[j] = <<"transfer", e[2], p>>
        /\ (cat_tasks # <<>> /\ Head(cat_tasks) = "cat_drain") => cat_order # <<>>

\* C33: a layer that was connected with None while it was behind the head
\* of line is, once it is the head, passed without an error: no step taken
\* with such a layer at the head raises in the Catenation.
C33_NoneConnectServed ==
    [][(/\ ~cat_fault
        /\ cat_order # <<>>
        /\ Head(cat_order) \in DOMAIN cat_flows
        /\ cat_flows[Head(cat_order)] = None) => ~cat_fault']_vars

C34_WitnessTerminating ==
    /\ cat_terminating
    /\ cat_order # <<>>
    /\ cat_events # <<>>

\* C35: the calls a Division makes on a layer's consumer flow hold at most
\* one f_terminate, and nothing follows it.
C35_TerminateOnce ==
    \A l \in DivLayers :
        \A i \in 1..Len(div_calls[l]) : div_calls[l][i] = 0 => i = Len(div_calls[l])

\* C36: every consumer flow that is a key of the Division's obstructions is
\* connected to a layer of the Division and is itself obstructed; in
\* particular no key is left for a layer that was terminated.
C36_ObstructionKeys ==
    \A l \in div_obstructions : div_flows[l] = "flow" /\ div_fobs[l]

\* C37: a channel U that connects with Channel.f_connect holds an
\* obstruction keyed by another channel D exactly when D is U's downstream
\* and D is obstructed.
C37_DownstreamObstruction ==
    \A u \in Chan : \A d \in Chan \ {u} :
        f_type(u) = "channel" =>
            ((~f_obstructions[u].isnil /\ d \in DOMAIN f_obstructions[u].d)
                <=> (f_downstream[u] = d /\ ~f_obstructions[d].isnil))

\* The KInput hands a buffer to the kernel only while it is not obstructed.
C38_NoBufferWhileObstructed ==
    [][ki_acquired' > ki_acquired => ki_obstructions = {}]_vars

\* C38: a KInput whose k_transition returned without a buffer because of an
\* obstruction hands a buffer to the kernel again once the obstructions are
\* cleared, without a process call from outside, unless it is obstructed
\* again first.
C38_ResumesAfterClear ==
    (ki_stalled /\ ki_obstructions = {})
        ~> (ki_resource = "buffer" \/ ki_obstructions # {})

\* C39: an Iteration hands an item to f_emit only in a step that starts
\* with no obstruction registered.
C39_NoEmitWhileObstructed ==
    [][Len(it_emitted') > Len(it_emitted) => it_obs = {}]_vars

\* C40: a Recurrence that was asked to terminate eventually is terminated,
\* and a sector that terminates while holding it eventually is terminated.
C40_RecurrenceTerminates ==
    /\ rc_terminating ~> rc_terminated
    /\ rc_sector.terminating ~> rc_sector.terminated

\* A terminating Recurrence with an occurrence pending is terminated by
\* that occurrence and reported to its sector.
C40_PendingOccurrence ==
    (rc_terminating /\ rc_wait >= 0) ~> (rc_terminated /\ rc_sector.terminated)

=============================================================================
